---- MODULE Spec2Model ----
(***************************************************************************)
(* A model of the RLM driver: the iteration controller (rlm/core/rlm.py),  *)
(* the local execution environment (rlm/environments/local_repl.py), the   *)
(* parsing utilities (rlm/utils/parsing.py), the option filter             *)
(* (rlm/utils/rlm_utils.py) and the logger (rlm/logger/rlm_logger.py).     *)
(*                                                                         *)
(* Text is a sequence of tokens.  The tokens that matter to the regular    *)
(* expressions of parsing.py are kept apart ("FINAL", "_VAR", "(", ")",    *)
(* "sp", "nl", "dq", the fences); every other token is non-whitespace      *)
(* text.  A code block is a token sequence whose non-whitespace tokens are *)
(* statements.                                                             *)
(***************************************************************************)
EXTENDS Integers, Sequences, FiniteSets, TLC

\* ---------------------------------------------------------------- bounds
MaxIterations == 2
MaxTextLen == 5
MaxCodeLen == 2
MaxCalls == 2
MaxDepth == 1
MaxKeyLen == 2
MaxOptions == 2
MaxLogCalls == 4

\* ------------------------------------------------------- optional values
\* Python's None / a present value.
None == <<>>
Some(v) == <<v>>

Min(S) == CHOOSE m \in S : \A n \in S : m <= n

\* The element of a one-element set.  TLC computes an operator's argument
\* anew at each use; in TheOne({F(v) : v \in {e}}) the value of e is computed
\* once and bound to v.
TheOne(S) == CHOOSE v \in S : TRUE

\* All token sequences over S of length at most n.
RECURSIVE SeqsUpTo(_, _)
SeqsUpTo(S, n) ==
    IF n = 0 THEN {<<>>}
    ELSE LET shorter == SeqsUpTo(S, n - 1)
         IN  shorter \cup {Append(q, t) : q \in {r \in shorter : Len(r) = n - 1}, t \in S}

\* ------------------------------------------------------------ text tools
IsWs(t) == t \in {"sp", "nl"}

RECURSIVE LStripSet(_, _)
LStripSet(s, cs) ==
    IF s /= <<>> /\ Head(s) \in cs THEN LStripSet(Tail(s), cs) ELSE s

RECURSIVE RStripSet(_, _)
RStripSet(s, cs) ==
    IF s /= <<>> /\ s[Len(s)] \in cs
    THEN RStripSet(SubSeq(s, 1, Len(s) - 1), cs)
    ELSE s

\* str.strip(chars)
StripSet(s, cs) == TheOne({RStripSet(LStripSet(v, cs), cs) : v \in {s}})

\* str.strip()
Strip(s) == StripSet(s, {"sp", "nl"})

\* Whether the literal lit occurs in text at position q.
HasLiteral(text, q, lit) ==
    /\ q >= 1
    /\ q + Len(lit) - 1 <= Len(text)
    /\ \A k \in 1..Len(lit) : text[q + k - 1] = lit[k]

\* "^" under re.MULTILINE: position p is the start of a line.
AtLineStart_TextStartOnly(text, p) == p = 1

AtLineStart(text, p) == p = 1 \/ text[p - 1] = "nl"

\* Greedy \s* from position p: the first position that holds no whitespace.
RECURSIVE SkipWs(_, _)
SkipWs(text, p) ==
    IF p <= Len(text) /\ IsWs(text[p]) THEN SkipWs(text, p + 1) ELSE p

\* Positions of a ")" at or after position a: where the lazy (.*?)\) can end
\* (re.DOTALL: the group may span lines).
ClosePositions(text, a) == {r \in a..Len(text) : text[r] = ")"}

\* The pattern ^\s*<lit>(.*?)\) matches with "^" at position p.
MarkerMatchAt(text, p, lit) ==
    /\ AtLineStart(text, p)
    /\ HasLiteral(text, SkipWs(text, p), lit)
    /\ ClosePositions(text, SkipWs(text, p) + Len(lit)) /= {}

\* re.search(r"^\s*<lit>(.*?)\)", text, re.MULTILINE | re.DOTALL): group(1)
\* of the leftmost match, or None.
MarkerSearch(text, lit) ==
    LET ps == {p \in 1..Len(text) : MarkerMatchAt(text, p, lit)}
    IN  IF ps = {} THEN None
        ELSE LET a == SkipWs(text, Min(ps)) + Len(lit)
                 r == Min(ClosePositions(text, a))
             IN  Some(SubSeq(text, a, r - 1))

FinalVarLit == <<"FINAL", "_VAR", "(">>
FinalLit == <<"FINAL", "(">>


\* ------------------------------------------------------ parsing.py: blocks
\* A closing fence (a newline, then three backticks): the backticks may be
\* those of an opener, which begins with the same three characters.
IsFence(t) == t \in {"fence", "fence_repl"}

\* The last newline of the whitespace run that follows the opener at
\* position o (opener, greedy \s*, then one newline), or 0.
OpenerNewline(text, o) ==
    LET e == SkipWs(text, o + 1)
        ns == {k \in (o + 1)..(e - 1) : text[k] = "nl"}
    IN  IF ns = {} THEN 0 ELSE CHOOSE k \in ns : \A m \in ns : m <= k

\* The first position c >= from with text[c] = "nl" and a fence right after.
CloserPositions(text, from) ==
    {c \in from..(Len(text) - 1) : text[c] = "nl" /\ IsFence(text[c + 1])}

\* A match of <opener>\s*\n(.*?)\n<closer> that starts at position o.
BlockMatchAt(text, o) ==
    /\ o <= Len(text)
    /\ text[o] = "fence_repl"
    /\ OpenerNewline(text, o) /= 0
    /\ CloserPositions(text, OpenerNewline(text, o) + 1) /= {}

\* re.finditer: the matches from position from on, left to right, without
\* overlap; each gives group(1).strip().
RECURSIVE BlocksFrom(_, _)
BlocksFrom(text, from) ==
    LET os == {o \in from..Len(text) : BlockMatchAt(text, o)}
    IN  IF os = {} THEN <<>>
        ELSE LET o == Min(os)
                 n == OpenerNewline(text, o)
                 c == Min(CloserPositions(text, n + 1))
             IN  <<Strip(SubSeq(text, n + 1, c - 1))>> \o BlocksFrom(text, c + 2)

find_code_blocks_Reversed(text) ==
    LET blocks == BlocksFrom(text, 1)
    IN  [k \in 1..Len(blocks) |-> blocks[Len(blocks) + 1 - k]]

find_code_blocks(text) == BlocksFrom(text, 1)

\* ------------------------------------------------- local_repl.py: bindings
Unbound == "<unbound>"
Helper == "<helper>"

GlobalNames == {"__builtins__", "__name__", "FINAL_VAR", "llm_query", "llm_query_batched"}
UserNames == {"x", "_t", "context"}
\* The names _SAFE_BUILTINS maps to None.
BlockedNames == {"input", "eval", "exec", "compile", "globals", "locals"}
Names == GlobalNames \cup UserNames \cup BlockedNames

\* key.startswith("_")
StartsWithUnderscore(n) == n \in {"_t", "__builtins__", "__name__"}

NoBindings == [n \in Names |-> Unbound]

\* LocalREPL.setup: self.globals
SetupGlobals == [n \in Names |-> IF n \in GlobalNames THEN Helper ELSE Unbound]

IsBound(b, n) == n \in Names /\ b[n] /= Unbound

\* combined = {**self.globals, **self.locals}
Combined(g, l) == [n \in Names |-> IF l[n] /= Unbound THEN l[n] ELSE g[n]]

\* What a blocked name evaluates to in code run with the namespace combined:
\* a binding of the namespace comes first, then the entry of the
\* __builtins__ dict of setup, which is None; a namespace without
\* __builtins__ is given the interpreter's own built-ins by exec.
Resolve(combined, n) ==
    IF combined[n] /= Unbound THEN combined[n]
    ELSE IF combined["__builtins__"] = Unbound THEN "builtins." \o n
    ELSE "None"

\* LocalREPL._final_var
FinalVarNameOf(name) == StripSet(Strip(name), {"dq", "sq"})

final_var_Get(l, name) ==
    TheOne({IF Len(n) = 1 /\ IsBound(l, n[1]) THEN <<l[n[1]]>> ELSE <<"None">> :
            n \in {FinalVarNameOf(name)}})

final_var(l, name) ==
    TheOne({IF Len(n) = 1 /\ IsBound(l, n[1])
            THEN <<l[n[1]]>>
            ELSE <<"Error: Variable ">> \o n \o <<" not found">> :
            n \in {FinalVarNameOf(name)}})


\* ------------------------------------------------ local_repl.py: execution
\* The statements of the modelled code fragments:
\*   "x=1", "x=2"     bind the user name x
\*   "_t=1"           binds a name that begins with an underscore
\*   "llm_query=1"    rebinds the name of a helper
\*   "context=load"   the body load_context runs: reads the payload file
\*   "print"          writes to stdout
\*   "x"              evaluates the name x (NameError when it is unbound)
\*   "llm_query()"    issues one sub-query
\*   "raise"          raises ZeroDivisionError (an Exception)
\*   "exit"           raises SystemExit (a BaseException, e.g. sys.exit())
\*   "eval=builtins.eval"   import builtins; eval = builtins.eval
\*   "eval()"         calls what the name eval evaluates to
\* Tokens that cannot stand in Python source fail the compilation of the
\* whole fragment; any other token is a name no namespace binds.
StmtTokens ==
    {"x=1", "x=2", "_t=1", "llm_query=1", "print", "x", "llm_query()", "raise", "exit", "("}

SyntaxErrorTokens == {"(", ")", "dq", "fence", "fence_repl"}

\* The identity of a sub-query: the execute_code call that issued it and the
\* position of the issuing statement.
QueryId(callno, j) == [call |-> callno, pos |-> j]

\* self._pending_llm_calls = [] on entry of execute_code
PendingAtEntry_Keep(pending) == pending

PendingAtEntry(pending) == <<>>

\* The interpreter's state while a fragment runs.  calls is
\* self._pending_llm_calls; issued (every sub-query sent, with its outcome) and
\* assigned (the names the fragment bound) are records of the run.
InterpInit(g, l, pending) ==
    [combined |-> Combined(g, l), stdout |-> <<>>, calls |-> PendingAtEntry(pending),
     issued |-> <<>>, assigned |-> NoBindings, status |-> "ok", exc |-> ""]

Bind(st, n, v) == [st EXCEPT !.combined[n] = v, !.assigned[n] = v]

Raise(st, kind, e) == [st EXCEPT !.status = kind, !.exc = e]

\* LocalREPL._llm_query: addr is whether a handler address is configured, ok
\* whether the handler answers with success (a transport failure or
\* success = false gives an "Error: ..." string and records nothing).
llm_query(st, id, addr, ok) ==
    IF ~addr THEN st
    ELSE IF ok
         THEN [st EXCEPT !.calls = Append(@, id),
                         !.issued = Append(@, [id |-> id, ok |-> TRUE])]
         ELSE [st EXCEPT !.issued = Append(@, [id |-> id, ok |-> FALSE])]

ExecStmt(st, tok, id, addr, ok) ==
    CASE IsWs(tok) -> st
      [] tok = "x=1" -> Bind(st, "x", "1")
      [] tok = "x=2" -> Bind(st, "x", "2")
      [] tok = "_t=1" -> Bind(st, "_t", "1")
      [] tok = "llm_query=1" -> Bind(st, "llm_query", "1")
      [] tok = "context=load" -> Bind(st, "context", "payload")
      [] tok = "print" -> [st EXCEPT !.stdout = @ \o <<"out", "nl">>]
      [] tok = "x" ->
           IF st.combined["x"] = Unbound THEN Raise(st, "exc", "NameError") ELSE st
      [] tok = "llm_query()" ->
           IF st.combined["llm_query"] = Unbound THEN Raise(st, "exc", "NameError")
           ELSE IF st.combined["llm_query"] /= Helper THEN Raise(st, "exc", "TypeError")
           ELSE llm_query(st, id, addr, ok)
      [] tok = "raise" -> Raise(st, "exc", "ZeroDivisionError")
      [] tok = "exit" -> Raise(st, "base", "SystemExit")
      [] tok = "eval=builtins.eval" -> Bind(st, "eval", "builtins.eval")
      [] tok = "eval()" ->
           IF Resolve(st.combined, "eval") = "None" THEN Raise(st, "exc", "TypeError")
           ELSE st
      [] OTHER -> Raise(st, "exc", "NameError")

RECURSIVE RunFrom(_, _, _, _, _, _)
RunFrom(st, code, j, callno, addr, qok) ==
    IF j > Len(code) \/ st.status /= "ok" THEN st
    ELSE RunFrom(ExecStmt(st, code[j], QueryId(callno, j), addr,
                          IF j \in DOMAIN qok THEN qok[j] ELSE TRUE),
                 code, j + 1, callno, addr, qok)

\* The code find_final_answer builds: print(FINAL_VAR(<name!r>))
PrintFinalVar(name) == <<"print(FINAL_VAR(">> \o name \o <<"))">>

\* exec(code, combined, combined)
exec(st, l, code, callno, addr, qok) ==
    IF code /= <<>> /\ Head(code) = "print(FINAL_VAR("
    THEN IF st.combined["FINAL_VAR"] = Unbound
         THEN Raise(st, "exc", "NameError")
         ELSE [st EXCEPT !.stdout =
                  @ \o final_var(l, SubSeq(code, 2, Len(code) - 1)) \o <<"nl">>]
    ELSE IF \E j \in 1..Len(code) : code[j] \in SyntaxErrorTokens
         THEN Raise(st, "exc", "SyntaxError")
         ELSE RunFrom(st, code, 1, callno, addr, qok)

\* for key, value in combined.items():
\*     if key not in self.globals and not key.startswith("_"): self.locals[key] = value
MergeLocals_OnlyNew(g, l, combined) ==
    [n \in Names |->
        IF combined[n] /= Unbound /\ g[n] = Unbound /\ ~StartsWithUnderscore(n)
           /\ l[n] = Unbound
        THEN combined[n] ELSE l[n]]

MergeLocals_All(g, l, combined) ==
    [n \in Names |-> IF combined[n] /= Unbound THEN combined[n] ELSE l[n]]

MergeLocals(g, l, combined) ==
    [n \in Names |->
        IF combined[n] /= Unbound /\ g[n] = Unbound /\ ~StartsWithUnderscore(n)
        THEN combined[n] ELSE l[n]]

\* REPLResult(stdout, stderr, locals, rlm_calls); execution_time is left out.
REPLResult(out, err, l, calls) ==
    [stdout |-> out, stderr |-> err, locals |-> l, rlm_calls |-> calls]

NoResult == REPLResult(<<>>, <<>>, NoBindings, <<>>)

\* stderr_buf.getvalue() + f"\n{type(e).__name__}: {e}"
ExceptionText(e) == <<"nl", e, ": message">>

\* LocalREPL.execute_code.  raised: a BaseException left the call (nothing is
\* returned); locals and pending are the environment's fields after the call.
ExecuteCodeOutcome_MergeOnError(st, g, l, callno) ==
    LET merged == MergeLocals(g, l, st.combined)
    IN  CASE st.status = "ok" ->
               [raised |-> FALSE, exc |-> "", locals |-> merged, pending |-> st.calls,
                result |-> REPLResult(st.stdout, <<>>, merged, st.calls),
                issued |-> st.issued, assigned |-> st.assigned,
                callno |-> callno]
          [] st.status = "exc" ->
               [raised |-> FALSE, exc |-> st.exc, locals |-> merged,
                pending |-> st.calls,
                result |-> REPLResult(st.stdout, ExceptionText(st.exc), merged, st.calls),
                issued |-> st.issued, assigned |-> st.assigned,
                callno |-> callno]
          [] OTHER ->
               [raised |-> TRUE, exc |-> st.exc, locals |-> l, pending |-> st.calls,
                result |-> NoResult,
                issued |-> st.issued, assigned |-> st.assigned,
                callno |-> callno]

ExecuteCodeOutcome(st, g, l, callno) ==
    LET merged == MergeLocals(g, l, st.combined)
    IN  CASE st.status = "ok" ->
               [raised |-> FALSE, exc |-> "", locals |-> merged, pending |-> st.calls,
                result |-> REPLResult(st.stdout, <<>>, merged, st.calls),
                issued |-> st.issued, assigned |-> st.assigned,
                callno |-> callno]
          [] st.status = "exc" ->
               [raised |-> FALSE, exc |-> st.exc, locals |-> l, pending |-> st.calls,
                result |-> REPLResult(st.stdout, ExceptionText(st.exc), l, st.calls),
                issued |-> st.issued, assigned |-> st.assigned,
                callno |-> callno]
          [] OTHER ->
               [raised |-> TRUE, exc |-> st.exc, locals |-> l, pending |-> st.calls,
                result |-> NoResult,
                issued |-> st.issued, assigned |-> st.assigned,
                callno |-> callno]

\* The interpreter's final state is a bound variable, so the fragment is run
\* once however often its outcome is read.
execute_code(g, l, pending, code, callno, addr, qok) ==
    TheOne({ExecuteCodeOutcome(st, g, l, callno) :
              st \in {exec(InterpInit(g, l, pending), l, code, callno, addr, qok)}})

\* No execute_code call was made.
NoExec ==
    [raised |-> FALSE, exc |-> "", locals |-> NoBindings, pending |-> <<>>,
     result |-> NoResult, issued |-> <<>>, assigned |-> NoBindings,
     callno |-> 0]

\* The positions of a fragment whose statement issues a sub-query.
QueryPositions(code) == {j \in 1..Len(code) : code[j] = "llm_query()"}

\* ------------------------------------------------ parsing.py: final answer
\* The body of find_final_answer, the outcomes mv and mf of the two searches
\* given (None or Some(group 1)).
FinalAnswerFrom_FinalFirst(mv, mf, g, l, pending, callno, addr) ==
    IF mf /= None
    THEN [answer |-> Some(Strip(mf[1])), ran |-> FALSE, exec |-> NoExec]
    ELSE IF mv /= None
    THEN LET variable_name == StripSet(StripSet(Strip(mv[1]), {"dq"}), {"sq"})
             r == execute_code(g, l, pending, PrintFinalVar(variable_name),
                               callno, addr, <<>>)
             out == Strip(r.result.stdout)
         IN  [answer |-> Some(IF out = <<>> THEN Strip(r.result.stderr) ELSE out),
              ran |-> TRUE, exec |-> r]
    ELSE [answer |-> None, ran |-> FALSE, exec |-> NoExec]

FinalAnswerFrom(mv, mf, g, l, pending, callno, addr) ==
    IF mv /= None
    THEN LET variable_name == StripSet(StripSet(Strip(mv[1]), {"dq"}), {"sq"})
             r == execute_code(g, l, pending, PrintFinalVar(variable_name),
                               callno, addr, <<>>)
             out == Strip(r.result.stdout)
         IN  [answer |-> Some(IF out = <<>> THEN Strip(r.result.stderr) ELSE out),
              ran |-> TRUE, exec |-> r]
    ELSE [answer |-> IF mf /= None THEN Some(Strip(mf[1])) ELSE None,
          ran |-> FALSE, exec |-> NoExec]

\* find_final_answer(text, environment), the environment given.  Returns
\* [answer, ran, exec]: the answer (None or Some(text)) and, when FINAL_VAR
\* was resolved, the execute_code call made for it.
find_final_answer(text, g, l, pending, callno, addr) ==
    TheOne({FinalAnswerFrom(mv, mf, g, l, pending, callno, addr) :
              mv \in {MarkerSearch(text, FinalVarLit)},
              mf \in {MarkerSearch(text, FinalLit)}})


\* -------------------------------------------- parsing.py: format_iteration
max_character_length == 20000

Message(role, content) == [role |-> role, content |-> content]

\* "\n\n".join(parts)
RECURSIVE JoinParts(_)
JoinParts(parts) ==
    IF Len(parts) = 0 THEN <<>>
    ELSE IF Len(parts) = 1 THEN parts[1]
    ELSE parts[1] \o <<"nl", "nl">> \o JoinParts(Tail(parts))

\* The names format_execution_result lists: no leading underscore (every
\* value of the model is a str or an int).  Listed in a fixed order.
ImportantVars(l) ==
    (IF l["context"] /= Unbound THEN <<"context">> ELSE <<>>)
    \o (IF l["x"] /= Unbound THEN <<"x">> ELSE <<>>)
    \o (IF l["llm_query"] /= Unbound THEN <<"llm_query">> ELSE <<>>)

format_execution_result(result) ==
    LET parts ==
            (IF result.stdout /= <<>> THEN <<<<"nl">> \o result.stdout>> ELSE <<>>)
            \o (IF result.stderr /= <<>> THEN <<<<"nl">> \o result.stderr>> ELSE <<>>)
            \o (IF ImportantVars(result.locals) /= <<>>
                THEN <<<<"REPL variables:">> \o ImportantVars(result.locals) \o <<"nl">>>>
                ELSE <<>>)
    IN  IF parts = <<>> THEN <<"No output">> ELSE JoinParts(parts)

\* result[:cap] + f"... + [{len(result) - cap} chars...]" (a token counts as
\* one character)
Truncate(result, cap) ==
    IF Len(result) > cap
    THEN SubSeq(result, 1, cap) \o <<"... + [", ToString(Len(result) - cap), " chars...]">>
    ELSE result

ExecutionMessage(block, cap) ==
    Message("user",
            <<"Code executed:">> \o block.code \o <<"REPL output:">>
            \o Truncate(format_execution_result(block.result), cap))

BlockMessages_LastOnly(blocks, cap) ==
    IF blocks = <<>> THEN <<>>
    ELSE <<ExecutionMessage(blocks[Len(blocks)], cap)>>

RECURSIVE BlockMessages(_, _)
BlockMessages(blocks, cap) ==
    IF blocks = <<>> THEN <<>>
    ELSE <<ExecutionMessage(Head(blocks), cap)>> \o BlockMessages(Tail(blocks), cap)

format_iteration(iteration) ==
    <<Message("assistant", iteration.response)>>
    \o BlockMessages(iteration.code_blocks, max_character_length)

\* ---------------------------------------------------- prompts.py (absent)
\* build_rlm_system_prompt: the initial history, one system message.
build_rlm_system_prompt == <<Message("system", <<"system prompt", "query metadata">>)>>

\* build_user_prompt(root_prompt, i): the per-turn user message.
build_user_prompt(i) ==
    Message("user", <<"user prompt", IF i = 0 THEN "first turn" ELSE "later turn">>)


\* ----------------------------------------- rlm_utils.py: option filtering
\* An option dict is a function from its keys to their values.  A key is a
\* string, written as a sequence of the pieces below.
KeyPieces == {"API", "Key"}

Letters(piece) ==
    CASE piece = "API" -> <<"A", "P", "I">>
      [] piece = "Key" -> <<"K", "e", "y">>
      [] OTHER -> <<piece>>

RECURSIVE KeyLetters(_)
KeyLetters(key) ==
    IF key = <<>> THEN <<>> ELSE Letters(Head(key)) \o KeyLetters(Tail(key))

\* str.lower, letter by letter
LowerLetter(c) ==
    CASE c = "A" -> "a" [] c = "P" -> "p" [] c = "I" -> "i"
      [] c = "K" -> "k" [] c = "E" -> "e" [] c = "Y" -> "y"
      [] OTHER -> c

lower(s) == [k \in 1..Len(s) |-> LowerLetter(s[k])]

\* sub in s
Contains(s, sub) ==
    \E k \in 1..(Len(s) - Len(sub) + 1) : SubSeq(s, k, k + Len(sub) - 1) = sub

\* "api" in key_lower and "key" in key_lower
IsSensitive_CaseSensitive(key) ==
    /\ Contains(KeyLetters(key), <<"a", "p", "i">>)
    /\ Contains(KeyLetters(key), <<"k", "e", "y">>)

IsSensitive(key) ==
    LET key_lower == lower(KeyLetters(key))
    IN  /\ Contains(key_lower, <<"a", "p", "i">>)
        /\ Contains(key_lower, <<"k", "e", "y">>)

filter_sensitive_keys(kwargs) ==
    [key \in {k \in DOMAIN kwargs : ~IsSensitive(k)} |-> kwargs[key]]

\* What the caller's dict holds after filter_sensitive_keys(kwargs): the loop
\* only reads kwargs.items().
KwargsAfterFilter(kwargs) == kwargs

EmptyDict == [key \in {} |-> "value"]

\* The keys and the option dicts RLM.__init__ is given.
OptionKeys == SeqsUpTo(KeyPieces, MaxKeyLen) \ {<<>>}

OptionDicts ==
    UNION {[keys -> {"value"}] :
             keys \in {ks \in SUBSET OptionKeys : Cardinality(ks) <= MaxOptions}}

\* How far below and above the cap the lengths of the formatted results lie
\* that the truncation step is applied to.
MaxAroundCap == 25

\* The most items of a list and the most entries of a dict in a context
\* payload (payloads nest once: a list or dict of scalars, lists and dicts).
MaxPayloadLen == 2

\* The most prompts one llm_query_batched call is given.
MaxBatch == 2

\* The longest code fragment a thread runs when several threads call
\* execute_code (each statement is a step of its own there).
MaxThreadCodeLen == 1

\* The threads that call execute_code on one environment.
ThreadIds == {"t1", "t2"}

\* A thread outside execute_code.  at is its position: "out", "entered" (the
\* pending list is reset, the lock not yet taken), "running" (inside both with
\* blocks, before or between statements), "leaving" (the try statement is
\* over, the finally clauses not yet), "returning" (the lock is released, the
\* REPLResult not yet built).  old_* are the locals of the two context
\* managers, result the last REPLResult the thread was given.
ThreadOutside ==
    [at |-> "out", code |-> <<>>, j |-> 0, callno |-> 0,
     st |-> [combined |-> [n \in {} |-> ""], stdout |-> <<>>, calls |-> <<>>,
             issued |-> <<>>, assigned |-> [n \in {} |-> ""], status |-> "ok",
             exc |-> ""],
     old_stdout |-> "", old_stderr |-> "", old_cwd |-> "",
     stdout |-> <<>>, stderr |-> <<>>, result |-> <<>>]

\* No thread is inside execute_code.
NoThreads == [t \in ThreadIds |-> ThreadOutside]

\* ------------------------------------------------------------ the state
VARIABLES
    depth, max_depth, max_iterations, has_logger,   \* RLM.__init__
    backend, environment_type,          \* the names given to RLM.__init__
    backend_kwargs, environment_kwargs, \* the option dicts it stores
    metadata,           \* the metadata entry of the log file, once written
    pc,                 \* where RLM.completion stands
    turn,               \* the loop variable i
    message_history, current_prompt,
    response,           \* the raw response of the current turn
    code_queue,         \* the fenced blocks still to execute
    code_blocks,        \* CodeBlock(code, result) of the current turn
    final_answer,
    outcome,            \* "none", "return", or the error that is propagating
    result,             \* the value returned
    lm_handler, handlers_created,       \* "none", "started", "stopped"
    environment, envs_created,          \* "none", "live", "cleaned"
    root_prompts,       \* the prompts sent with lm_handler.completion
    fallback_prompts,   \* the prompts sent with client.completion
    iteration_count, log_file,          \* RLMLogger
    env_globals, env_locals, pending_llm_calls, lm_handler_address,  \* LocalREPL
    exec_count,         \* execute_code calls made on the environment
    last_exec,          \* the last execute_code call
    sys_stdout, sys_stderr,     \* the process-wide output streams
    cwd,                \* the process-wide working directory
    lock,               \* self._lock: TRUE while a thread holds it
    threads,            \* each calling thread's position in execute_code
    last_reply,         \* what the last direct call of a helper returned
    pure_call           \* a function of parsing.py or a conversion under
                        \* evaluation: its argument and the values returned

config_vars == <<depth, max_depth, max_iterations, has_logger, backend,
                 environment_type, backend_kwargs, environment_kwargs, metadata>>
turn_vars == <<turn, message_history, current_prompt, response, code_queue,
               code_blocks, final_answer>>
resource_vars == <<lm_handler, handlers_created, environment, envs_created>>
client_vars == <<root_prompts, fallback_prompts>>
logger_vars == <<iteration_count, log_file>>
process_vars == <<sys_stdout, sys_stderr, cwd, lock>>
caller_vars == <<threads, last_reply, pure_call>>
env_vars == <<env_globals, env_locals, pending_llm_calls, lm_handler_address,
              exec_count, last_exec, process_vars, caller_vars>>

vars == <<config_vars, pc, turn_vars, outcome, result, resource_vars, client_vars,
          logger_vars, env_vars>>

\* The prompt passed to completion (the context payload).
Prompt == <<"payload">>

\* setup(): self.locals = {} -- a new environment starts without bindings,
\* whatever an earlier environment of the process held.
FreshLocals_Kept(old) == old

FreshLocals(old) == NoBindings

\* What the stubbed root client may answer.
Responses ==
    { <<"x">>,
      <<"FINAL", "(", "x", ")">>,
      <<"FINAL", "(", ")">>,
      <<"x", "sp", "FINAL", "(", "x", ")">>,
      <<"FINAL", "_VAR", "(", "x", ")">>,
      <<"fence_repl", "nl", "x=1", "nl", "fence">>,
      <<"fence_repl", "nl", "llm_query()", "nl", "raise", "nl", "fence">>,
      <<"fence_repl", "nl", "print", "nl", "exit", "nl", "fence">>,
      <<"fence_repl", "nl", "x=1", "nl", "fence", "nl",
        "fence_repl", "nl", "print", "nl", "fence">>,
      <<"fence_repl", "nl", "x=2", "nl", "fence", "nl",
        "fence_repl", "nl", "x", "nl", "fence", "nl",
        "FINAL", "_VAR", "(", "x", ")">> }

IdleState ==
    /\ pc = "idle"
    /\ turn = 0
    /\ message_history = <<>>
    /\ current_prompt = <<>>
    /\ response = <<>>
    /\ code_queue = <<>>
    /\ code_blocks = <<>>
    /\ final_answer = None
    /\ outcome = "none"
    /\ result = None
    /\ lm_handler = "none"
    /\ handlers_created = 0
    /\ environment = "none"
    /\ envs_created = 0
    /\ root_prompts = <<>>
    /\ fallback_prompts = <<>>
    /\ iteration_count = 0
    /\ log_file = <<>>
    /\ env_globals = NoBindings
    /\ env_locals = NoBindings
    /\ pending_llm_calls = <<>>
    /\ lm_handler_address = FALSE
    /\ exec_count = 0
    /\ last_exec = NoExec
    /\ lock = FALSE
    /\ threads = NoThreads
    /\ last_reply = None

\* The process as the interpreter starts it.
ProcessAtStart ==
    /\ sys_stdout = "stdout"
    /\ sys_stderr = "stderr"
    /\ cwd = "original_cwd"

\* get_client and get_environment know these names and raise on any other.
KnownBackends == {"openai"}
KnownEnvironments == {"local"}

\* An option dict with a secret in it.
SomeKwargs == [key \in {<<"API", "Key">>, <<"Key">>} |-> "value"]

\* if backend_kwargs: a dict that is None or empty is falsy
Truthy(kwargs) == kwargs /= EmptyDict

\* RLMMetadata(...) as RLM.__init__ builds it (root_model and other_backends
\* are left out).
RLMMetadata(b, bk, e, ek, md, mi) ==
    [max_depth |-> md, max_iterations |-> mi, backend |-> b,
     backend_kwargs |-> IF Truthy(bk) THEN filter_sensitive_keys(bk) ELSE EmptyDict,
     environment_type |-> e,
     environment_kwargs |-> IF Truthy(ek) THEN filter_sensitive_keys(ek) ELSE EmptyDict]

\* No RLM object is involved.
NoController ==
    /\ backend = "openai"
    /\ environment_type = "local"
    /\ backend_kwargs = EmptyDict
    /\ environment_kwargs = EmptyDict
    /\ metadata = None

\* A controller after RLM.__init__ was given a known backend and environment,
\* before completion is called.
Init ==
    /\ depth \in 0..MaxDepth
    /\ max_depth \in 0..MaxDepth
    /\ max_iterations \in 0..MaxIterations
    /\ has_logger \in BOOLEAN
    /\ backend = "openai"
    /\ environment_type = "local"
    /\ backend_kwargs = SomeKwargs
    /\ environment_kwargs = EmptyDict
    /\ metadata = IF has_logger
                  THEN Some(RLMMetadata("openai", SomeKwargs, "local", EmptyDict,
                                        max_depth, max_iterations))
                  ELSE None
    /\ IdleState
    /\ pure_call = None
    /\ ProcessAtStart

\* -------------------------------------------------------- RLMLogger.log
LogEntry(n, it) ==
    [iteration |-> n, response |-> it.response, final_answer |-> it.final_answer,
     code_blocks |-> Len(it.code_blocks)]

\* self._iteration_count += 1
IncrementCount_Restart(n) == 1

IncrementCount(n) == n + 1

\* RLMLogger.log(iteration): the counter goes up, then the entry is appended
\* to the file.
RLMLogger_log(it) ==
    /\ iteration_count' = IncrementCount(iteration_count)
    /\ log_file' = Append(log_file, LogEntry(IncrementCount(iteration_count), it))

\* if self.logger: self.logger.log(iteration)
Log_OnlyFinal(it) ==
    IF has_logger /\ it.final_answer /= None
    THEN RLMLogger_log(it)
    ELSE UNCHANGED logger_vars

Log(it) ==
    IF has_logger
    THEN RLMLogger_log(it)
    ELSE UNCHANGED logger_vars

RLMIteration(r, blocks, fa) ==
    [response |-> r, code_blocks |-> blocks, final_answer |-> fa]

RLMChatCompletion(p, r) == [kind |-> "RLMChatCompletion", prompt |-> p, response |-> r]


\* ------------------------------------------------------ rlm.py: completion
\* if self.depth >= self.max_depth
AtMaxDepth_Strict(d, m) == d > m

AtMaxDepth(d, m) == d >= m

\* for i in range(self.max_iterations)
LoopContinues_OffByOne(i, n) == i <= n

LoopContinues_AtLeastOnce(i, n) == i < n \/ i = 0

LoopContinues(i, n) == i < n

\* message_history + [m] builds a new list: what the left operand holds after.
ListAfterConcat_InPlace(h, m) == Append(h, m)

ListAfterConcat(h, m) == h

\* message_history.extend(new_messages)
ExtendHistory_Replace(h, msgs) == msgs

ExtendHistory(h, msgs) == h \o msgs

\* final_answer is not None (an empty answer is one)
IsFinal_Truthy(fa) == fa /= None /\ fa[1] /= <<>>

IsFinal(fa) == fa /= None

\* How an execute_code call leaves its two with blocks: "ok" (the code
\* finished), "exc" (it raised an Exception, caught inside), "base" (a
\* BaseException passes through), "chdir" (os.chdir(self.temp_dir) raised).
ExitPath(r) ==
    IF r.exc = "FileNotFoundError" /\ r.raised THEN "chdir"
    ELSE IF r.raised THEN "base"
    ELSE IF r.exc /= "" THEN "exc" ELSE "ok"

\* _capture_output: finally: sys.stdout, sys.stderr = old_stdout, old_stderr
RestoreStream(path, old, buf) == old

\* _temp_cwd: finally: os.chdir(old_cwd)
RestoreCwd_UnlessRaised(path, old_cwd, now) ==
    IF path \in {"ok", "exc"} THEN old_cwd ELSE now

RestoreCwd(path, old_cwd, now) == old_cwd

\* with self._lock: the lock is released however the block is left
LockAfter(path) == FALSE

\* The process-wide state after an execute_code call that left by path: the
\* streams were the two buffers and the directory was temp_dir (or still the
\* old one when os.chdir raised) until the finally clauses ran.
ProcessAfter(path) ==
    /\ sys_stdout' = RestoreStream(path, sys_stdout, "stdout_buf")
    /\ sys_stderr' = RestoreStream(path, sys_stderr, "stderr_buf")
    /\ cwd' = RestoreCwd(path, cwd, IF path = "chdir" THEN cwd ELSE "temp_dir")
    /\ lock' = LockAfter(path)

\* One execute_code call r made on the environment.
EnvAfter(r) ==
    /\ env_locals' = r.locals
    /\ pending_llm_calls' = r.pending
    /\ exec_count' = exec_count + 1
    /\ last_exec' = r
    /\ ProcessAfter(ExitPath(r))
    /\ UNCHANGED <<env_globals, lm_handler_address, caller_vars>>

\* _fallback_answer: one direct client call, which returns.
Fallback ==
    /\ pc = "idle"
    /\ AtMaxDepth(depth, max_depth)
    /\ backend \in KnownBackends
    /\ \E r \in Responses :
         /\ fallback_prompts' = Append(fallback_prompts, Prompt)
         /\ result' = Some([kind |-> "str", prompt |-> <<>>, response |-> r])
    /\ pc' = "returned"
    /\ outcome' = "return"
    /\ UNCHANGED <<config_vars, turn_vars, resource_vars, root_prompts, logger_vars,
                   env_vars>>

\* _fallback_answer: the client call raises.
FallbackRaises ==
    /\ pc = "idle"
    /\ AtMaxDepth(depth, max_depth)
    /\ backend \in KnownBackends
    /\ fallback_prompts' = Append(fallback_prompts, Prompt)
    /\ pc' = "raised"
    /\ outcome' = "ClientError"
    /\ UNCHANGED <<config_vars, turn_vars, result, resource_vars, root_prompts,
                   logger_vars, env_vars>>

\* _spawn_completion_context up to the yield: the handler is created and
\* started, then the environment is constructed (LocalREPL.__init__: setup,
\* then load_context, which runs one execute_code).
SpawnContext ==
    /\ pc = "idle"
    /\ ~AtMaxDepth(depth, max_depth)
    /\ backend \in KnownBackends
    /\ environment_type \in KnownEnvironments
    /\ lm_handler' = "started"
    /\ handlers_created' = handlers_created + 1
    /\ environment' = "live"
    /\ envs_created' = envs_created + 1
    /\ LET r == execute_code(SetupGlobals, FreshLocals(env_locals), <<>>,
                             <<"context=load">>,
                             exec_count + 1, TRUE, <<>>)
       IN  /\ env_globals' = SetupGlobals
           /\ lm_handler_address' = TRUE
           /\ env_locals' = r.locals
           /\ pending_llm_calls' = r.pending
           /\ exec_count' = exec_count + 1
           /\ last_exec' = r
           /\ ProcessAfter(ExitPath(r))
    /\ pc' = "setup"
    /\ UNCHANGED <<config_vars, turn_vars, outcome, result, client_vars, logger_vars,
                   caller_vars>>

\* _spawn_completion_context: get_environment raises (the environment kind is
\* unknown, the payload cannot be written, the temp directory cannot be made)
\* after lm_handler.start(), before the try block is entered.
SpawnContextFails ==
    /\ pc = "idle"
    /\ ~AtMaxDepth(depth, max_depth)
    /\ backend \in KnownBackends
    /\ lm_handler' = "started"
    /\ handlers_created' = handlers_created + 1
    /\ pc' = "raised"
    /\ outcome' = "EnvironmentError"
    /\ UNCHANGED <<config_vars, turn_vars, result, environment, envs_created,
                   client_vars, logger_vars, env_vars>>

\* message_history = self._setup_prompt(prompt)
SetupPrompt ==
    /\ pc = "setup"
    /\ message_history' = build_rlm_system_prompt
    /\ turn' = 0
    /\ pc' = "loop"
    /\ UNCHANGED <<config_vars, current_prompt, response, code_queue, code_blocks,
                   final_answer, outcome, result, resource_vars, client_vars,
                   logger_vars, env_vars>>

\* current_prompt = message_history + [build_user_prompt(root_prompt, i)]
BuildPrompt ==
    /\ pc = "loop"
    /\ LoopContinues(turn, max_iterations)
    /\ current_prompt' = message_history \o <<build_user_prompt(turn)>>
    /\ message_history' = ListAfterConcat(message_history, build_user_prompt(turn))
    /\ pc' = "call"
    /\ UNCHANGED <<config_vars, turn, response, code_queue, code_blocks, final_answer,
                   outcome, result, resource_vars, client_vars, logger_vars, env_vars>>

\* _completion_turn: response = lm_handler.completion(prompt), then
\* find_code_blocks(response)
ClientCall ==
    /\ pc = "call"
    /\ \E r \in Responses :
         /\ response' = r
         /\ code_queue' = find_code_blocks(r)
    /\ root_prompts' = Append(root_prompts, [kind |-> "turn", prompt |-> current_prompt])
    /\ code_blocks' = <<>>
    /\ final_answer' = None
    /\ pc' = "exec"
    /\ UNCHANGED <<config_vars, turn, message_history, current_prompt, outcome, result,
                   resource_vars, fallback_prompts, logger_vars, env_vars>>

\* _completion_turn: lm_handler.completion raises; the exception leaves the
\* with block.
ClientRaises_Retried ==
    /\ pc = "call"
    /\ root_prompts' = Append(root_prompts, [kind |-> "turn", prompt |-> current_prompt])
    /\ UNCHANGED <<config_vars, pc, turn_vars, outcome, result, resource_vars,
                   fallback_prompts, logger_vars, env_vars>>

ClientRaises ==
    /\ pc = "call"
    /\ root_prompts' = Append(root_prompts, [kind |-> "turn", prompt |-> current_prompt])
    /\ pc' = "unwind"
    /\ outcome' = "ClientError"
    /\ UNCHANGED <<config_vars, turn_vars, result, resource_vars, fallback_prompts,
                   logger_vars, env_vars>>

\* _completion_turn: one pass of the loop over code_block_strs.  A
\* BaseException that execute_code lets through leaves the with block.
ExecBlock ==
    /\ pc = "exec"
    /\ code_queue /= <<>>
    /\ \E qok \in [QueryPositions(Head(code_queue)) -> BOOLEAN] :
         LET r == execute_code(env_globals, env_locals, pending_llm_calls,
                               Head(code_queue), exec_count + 1, lm_handler_address, qok)
         IN  /\ EnvAfter(r)
             /\ IF r.raised
                THEN /\ pc' = "unwind"
                     /\ outcome' = r.exc
                     /\ UNCHANGED <<code_queue, code_blocks>>
                ELSE /\ code_queue' = Tail(code_queue)
                     /\ code_blocks' =
                            Append(code_blocks, [code |-> Head(code_queue), result |-> r.result])
                     /\ UNCHANGED <<pc, outcome>>
    /\ UNCHANGED <<config_vars, turn, message_history, current_prompt, response,
                   final_answer, result, resource_vars, client_vars, logger_vars>>

\* final_answer = find_final_answer(iteration.response, environment=environment)
FindFinal ==
    /\ pc = "exec"
    /\ code_queue = <<>>
    /\ \E f \in {find_final_answer(response, env_globals, env_locals, pending_llm_calls,
                                     exec_count + 1, lm_handler_address)} :
           /\ final_answer' = f.answer
           /\ IF f.ran THEN EnvAfter(f.exec) ELSE UNCHANGED env_vars
    /\ pc' = "log"
    /\ UNCHANGED <<config_vars, turn, message_history, current_prompt, response,
                   code_queue, code_blocks, outcome, result, resource_vars, client_vars,
                   logger_vars>>

\* if self.logger: self.logger.log(iteration)
LogIteration ==
    /\ pc = "log"
    /\ Log(RLMIteration(response, code_blocks, final_answer))
    /\ pc' = "decide"
    /\ UNCHANGED <<config_vars, turn_vars, outcome, result, resource_vars, client_vars,
                   env_vars>>

\* if final_answer is not None: return ...; else message_history.extend(...)
Decide ==
    /\ pc = "decide"
    /\ IF IsFinal(final_answer)
       THEN /\ result' = Some(RLMChatCompletion(Prompt, final_answer[1]))
            /\ pc' = "unwind"
            /\ outcome' = "return"
            /\ UNCHANGED <<turn, message_history>>
       ELSE /\ message_history' =
                  ExtendHistory(message_history,
                                format_iteration(RLMIteration(response, code_blocks,
                                                              final_answer)))
            /\ turn' = turn + 1
            /\ pc' = "loop"
            /\ UNCHANGED <<outcome, result>>
    /\ UNCHANGED <<config_vars, current_prompt, response, code_queue, code_blocks,
                   final_answer, resource_vars, client_vars, logger_vars, env_vars>>

SynthesisMessage ==
    Message("assistant", <<"Please provide a final answer">>)

\* The loop is exhausted: _default_answer, whose client call returns.
DefaultAnswer ==
    /\ pc = "loop"
    /\ ~LoopContinues(turn, max_iterations)
    /\ current_prompt' = message_history \o <<SynthesisMessage>>
    /\ message_history' = ListAfterConcat(message_history, SynthesisMessage)
    /\ root_prompts' = Append(root_prompts,
                              [kind |-> "synth",
                               prompt |-> message_history \o <<SynthesisMessage>>])
    /\ \E r \in Responses :
         /\ response' = r
         /\ final_answer' = Some(r)
         /\ Log(RLMIteration(r, <<>>, Some(r)))
         /\ result' = Some(RLMChatCompletion(Prompt, r))
    /\ code_blocks' = <<>>
    /\ pc' = "unwind"
    /\ outcome' = "return"
    /\ UNCHANGED <<config_vars, turn, code_queue, resource_vars, fallback_prompts,
                   env_vars>>

\* _default_answer: the client call raises.
DefaultAnswerRaises ==
    /\ pc = "loop"
    /\ ~LoopContinues(turn, max_iterations)
    /\ current_prompt' = message_history \o <<SynthesisMessage>>
    /\ message_history' = ListAfterConcat(message_history, SynthesisMessage)
    /\ root_prompts' = Append(root_prompts,
                              [kind |-> "synth",
                               prompt |-> message_history \o <<SynthesisMessage>>])
    /\ pc' = "unwind"
    /\ outcome' = "ClientError"
    /\ UNCHANGED <<config_vars, turn, response, code_queue, code_blocks, final_answer,
                   result, resource_vars, fallback_prompts, logger_vars, env_vars>>

\* The finally of _spawn_completion_context: lm_handler.stop(), then
\* environment.cleanup() (globals and locals cleared).
Teardown ==
    /\ pc = "unwind"
    /\ lm_handler' = "stopped"
    /\ environment' = "cleaned"
    /\ env_globals' = NoBindings
    /\ env_locals' = NoBindings
    /\ pc' = IF outcome = "return" THEN "returned" ELSE "raised"
    /\ UNCHANGED <<config_vars, turn_vars, outcome, result, handlers_created,
                   envs_created, client_vars, logger_vars, pending_llm_calls,
                   lm_handler_address, exec_count, last_exec, process_vars,
                   caller_vars>>

\* The finally of _spawn_completion_context when lm_handler.stop() raises:
\* environment.cleanup() is not reached, and the error replaces the value or
\* the error that was leaving the with block.  The listener may or may not
\* have been terminated before the error.
TeardownStopRaises ==
    /\ pc = "unwind"
    /\ lm_handler' \in {"started", "stopped"}
    /\ outcome' = "TeardownError"
    /\ pc' = "raised"
    /\ UNCHANGED <<config_vars, turn_vars, result, handlers_created, environment,
                   envs_created, client_vars, logger_vars, env_vars>>

Next ==
    \/ Fallback
    \/ FallbackRaises
    \/ SpawnContext
    \/ SpawnContextFails
    \/ SetupPrompt
    \/ BuildPrompt
    \/ ClientCall
    \/ ClientRaises
    \/ ExecBlock
    \/ FindFinal
    \/ LogIteration
    \/ Decide
    \/ DefaultAnswer
    \/ DefaultAnswerRaises
    \/ Teardown
    \/ TeardownStopRaises

Spec == Init /\ [][Next]_vars

\* Every step the controller can take is eventually taken: the call is
\* sequential code whose client calls and code blocks return or raise.
FairSpec == Spec /\ WF_vars(Next)


\* ---------------------------------------- a LocalREPL driven by its caller
\* The code fragments handed to execute_code.
Programs == SeqsUpTo(StmtTokens, MaxCodeLen)

\* The setup_code options: none, or a fragment that issues a sub-query.
SetupCodes == {<<>>, <<"llm_query()", "x=1">>}

\* LocalREPL.__init__(lm_handler_address, context_payload, setup_code):
\* setup(), load_context(payload), then execute_code(setup_code) if given.
REPL_Construct ==
    /\ environment = "none"
    /\ \E addr \in BOOLEAN, setup_code \in SetupCodes :
         \E qok \in [QueryPositions(setup_code) -> BOOLEAN] :
           LET r1 == execute_code(SetupGlobals, NoBindings, <<>>, <<"context=load">>,
                                  exec_count + 1, addr, <<>>)
               r2 == execute_code(SetupGlobals, r1.locals, r1.pending, setup_code,
                                  exec_count + 2, addr, qok)
           IN  /\ lm_handler_address' = addr
               /\ env_globals' = SetupGlobals
               /\ IF setup_code = <<>>
                  THEN /\ env_locals' = r1.locals
                       /\ pending_llm_calls' = r1.pending
                       /\ exec_count' = exec_count + 1
                       /\ last_exec' = r1
                       /\ ProcessAfter(ExitPath(r1))
                  ELSE /\ env_locals' = r2.locals
                       /\ pending_llm_calls' = r2.pending
                       /\ exec_count' = exec_count + 2
                       /\ last_exec' = r2
                       /\ ProcessAfter(ExitPath(r2))
    /\ environment' = "live"
    /\ envs_created' = envs_created + 1
    /\ UNCHANGED <<config_vars, pc, turn_vars, outcome, result, lm_handler,
                   handlers_created, client_vars, logger_vars, caller_vars>>

\* One execute_code(code) call by the environment's user.
REPL_ExecuteCode ==
    /\ environment = "live"
    /\ exec_count < MaxCalls + 2
    /\ \E code \in Programs :
         \E qok \in [QueryPositions(code) -> BOOLEAN] :
           EnvAfter(execute_code(env_globals, env_locals, pending_llm_calls, code,
                                 exec_count + 1, lm_handler_address, qok))
    /\ UNCHANGED <<config_vars, pc, turn_vars, outcome, result, resource_vars,
                   client_vars, logger_vars>>

\* LocalREPL.cleanup
REPL_Cleanup ==
    /\ environment = "live"
    /\ environment' = "cleaned"
    /\ env_globals' = NoBindings
    /\ env_locals' = NoBindings
    /\ UNCHANGED <<config_vars, pc, turn_vars, outcome, result, lm_handler,
                   handlers_created, envs_created, client_vars, logger_vars,
                   pending_llm_calls, lm_handler_address, exec_count, last_exec,
                   process_vars, caller_vars>>

\* os.chdir(self.temp_dir) raises inside execute_code (the directory was
\* removed): the pending list is already reset, no code runs, and the error
\* leaves both with blocks and the call.
REPL_ChdirFails ==
    /\ environment = "live"
    /\ exec_count < MaxCalls + 2
    /\ EnvAfter([raised |-> TRUE, exc |-> "FileNotFoundError", locals |-> env_locals,
                 pending |-> PendingAtEntry(pending_llm_calls), result |-> NoResult,
                 issued |-> <<>>, assigned |-> NoBindings, callno |-> exec_count + 1])
    /\ UNCHANGED <<config_vars, pc, turn_vars, outcome, result, resource_vars,
                   client_vars, logger_vars>>

\* The code fragments that reach for a blocked primitive.
SandboxPrograms ==
    SeqsUpTo({"eval=builtins.eval", "eval()", "x=1", "print", "raise", "exit"}, MaxCodeLen)

\* One execute_code(code) call with such a fragment.
REPL_ExecuteSandboxed ==
    /\ environment = "live"
    /\ exec_count < MaxCalls + 2
    /\ \E code \in SandboxPrograms :
         EnvAfter(execute_code(env_globals, env_locals, pending_llm_calls, code,
                               exec_count + 1, lm_handler_address, <<>>))
    /\ UNCHANGED <<config_vars, pc, turn_vars, outcome, result, resource_vars,
                   client_vars, logger_vars>>

\* Before a LocalREPL is constructed, in a process whose streams and working
\* directory are whatever its owner has set.
InitSandbox ==
    /\ depth = 0
    /\ max_depth = 1
    /\ max_iterations = MaxIterations
    /\ has_logger = FALSE
    /\ NoController
    /\ IdleState
    /\ pure_call = None
    /\ sys_stdout \in {"stdout", "redirected_stdout"}
    /\ sys_stderr \in {"stderr", "redirected_stderr"}
    /\ cwd \in {"original_cwd", "other_cwd"}

NextSandbox ==
    REPL_Construct \/ REPL_ExecuteSandboxed \/ REPL_ChdirFails \/ REPL_Cleanup

SpecSandbox == InitSandbox /\ [][NextSandbox]_vars

InitREPL ==
    /\ depth = 0
    /\ max_depth = 1
    /\ max_iterations = MaxIterations
    /\ has_logger = FALSE
    /\ NoController
    /\ IdleState
    /\ pure_call = None
    /\ ProcessAtStart

NextREPL == REPL_Construct \/ REPL_ExecuteCode \/ REPL_Cleanup

SpecREPL == InitREPL /\ [][NextREPL]_vars

\* ------------------------------- the end of a turn, for any response text
\* The tokens the marker patterns tell apart.
ParseTokens == {"FINAL", "_VAR", "(", ")", "sp", "nl", "x", "dq"}

Texts == SeqsUpTo(ParseTokens, MaxTextLen)

\* Longer responses in which both markers stand at a line start, or in which
\* the literal of FINAL( ) holds parentheses or a line break.
MarkerTexts ==
    { <<"FINAL", "(", "sp", ")", "nl", "FINAL", "_VAR", "(", "x", ")">>,
      <<"FINAL", "_VAR", "(", "x", ")", "nl", "FINAL", "(", "sp", ")">>,
      <<"x", "nl", "FINAL", "(", "x", "nl", "x", ")">>,
      <<"FINAL", "(", "x", "(", "x", ")", ")">>,
      <<"FINAL", "(", "(", "x", ")", "sp", "x", ")", "nl">> }

\* A completion whose root client has just answered turn 0 with some text
\* that holds no fenced block: the state ClientCall leaves.
InitParse ==
    /\ depth = 0
    /\ max_depth = 1
    /\ max_iterations = MaxIterations
    /\ has_logger = TRUE
    /\ backend = "openai"
    /\ environment_type = "local"
    /\ backend_kwargs = SomeKwargs
    /\ environment_kwargs = EmptyDict
    /\ metadata = Some(RLMMetadata("openai", SomeKwargs, "local", EmptyDict, 1,
                                   MaxIterations))
    /\ pc = "exec"
    /\ turn = 0
    /\ message_history = build_rlm_system_prompt
    /\ current_prompt = build_rlm_system_prompt \o <<build_user_prompt(0)>>
    /\ response \in Texts \cup MarkerTexts
    /\ code_queue = <<>>
    /\ code_blocks = <<>>
    /\ final_answer = None
    /\ outcome = "none"
    /\ result = None
    /\ lm_handler = "started"
    /\ handlers_created = 1
    /\ environment = "live"
    /\ envs_created = 1
    /\ root_prompts = <<[kind |-> "turn",
                         prompt |-> build_rlm_system_prompt \o <<build_user_prompt(0)>>]>>
    /\ fallback_prompts = <<>>
    /\ iteration_count = 0
    /\ log_file = <<>>
    /\ env_globals = SetupGlobals
    /\ env_locals = [NoBindings EXCEPT !["context"] = "payload", !["x"] = "1"]
    /\ pending_llm_calls = <<>>
    /\ lm_handler_address = TRUE
    /\ exec_count = 2
    /\ last_exec = execute_code(SetupGlobals, [NoBindings EXCEPT !["context"] = "payload"],
                                <<>>, <<"x=1">>, 2, TRUE, <<>>)
    /\ sys_stdout = "stdout"
    /\ sys_stderr = "stderr"
    /\ cwd = "original_cwd"
    /\ lock = FALSE
    /\ threads = NoThreads
    /\ last_reply = None
    /\ pure_call = None

NextParse == FindFinal \/ LogIteration \/ Decide \/ Teardown \/ TeardownStopRaises

SpecParse == InitParse /\ [][NextParse]_vars


\* ------------------------------------------ the construction of an RLM
\* The option dicts given as environment_kwargs.
EnvOptionDicts == {d \in OptionDicts : Cardinality(DOMAIN d) <= 1}

\* RLM.__init__: the configuration is stored as given; with a logger the
\* metadata entry is built and written.  backend_kwargs and
\* environment_kwargs hold the caller's dicts before the call.
RLM_Init ==
    /\ pc = "unbuilt"
    /\ backend' \in KnownBackends \cup {"unknown"}
    /\ environment_type' \in KnownEnvironments \cup {"unknown"}
    /\ depth' = 0
    /\ max_depth' \in 0..(MaxDepth + 1)
    /\ max_iterations' = MaxIterations
    /\ has_logger' \in BOOLEAN
    /\ backend_kwargs' = KwargsAfterFilter(backend_kwargs)
    /\ environment_kwargs' = KwargsAfterFilter(environment_kwargs)
    /\ metadata' = IF has_logger'
                   THEN Some(RLMMetadata(backend', backend_kwargs, environment_type',
                                         environment_kwargs, max_depth', max_iterations'))
                   ELSE None
    /\ pc' = "idle"
    /\ UNCHANGED <<turn_vars, outcome, result, resource_vars, client_vars,
                   logger_vars, env_vars>>

\* completion: get_client(self.backend, ...) raises on a backend it does not
\* know, in _fallback_answer as in _spawn_completion_context, before anything
\* is created.
GetClientFails ==
    /\ pc = "idle"
    /\ backend \notin KnownBackends
    /\ pc' = "raised"
    /\ outcome' = "ConfigError"
    /\ UNCHANGED <<config_vars, turn_vars, result, resource_vars, client_vars,
                   logger_vars, env_vars>>

\* Before RLM(...) is called: the caller holds the two option dicts.
InitConstruct ==
    /\ depth = 0
    /\ max_depth = 0
    /\ max_iterations = 0
    /\ has_logger = FALSE
    /\ backend = ""
    /\ environment_type = ""
    /\ backend_kwargs \in OptionDicts
    /\ environment_kwargs \in EnvOptionDicts
    /\ metadata = None
    /\ pc = "unbuilt"
    /\ turn = 0
    /\ message_history = <<>>
    /\ current_prompt = <<>>
    /\ response = <<>>
    /\ code_queue = <<>>
    /\ code_blocks = <<>>
    /\ final_answer = None
    /\ outcome = "none"
    /\ result = None
    /\ lm_handler = "none"
    /\ handlers_created = 0
    /\ environment = "none"
    /\ envs_created = 0
    /\ root_prompts = <<>>
    /\ fallback_prompts = <<>>
    /\ iteration_count = 0
    /\ log_file = <<>>
    /\ env_globals = NoBindings
    /\ env_locals = NoBindings
    /\ pending_llm_calls = <<>>
    /\ lm_handler_address = FALSE
    /\ exec_count = 0
    /\ last_exec = NoExec
    /\ sys_stdout = "stdout"
    /\ sys_stderr = "stderr"
    /\ cwd = "original_cwd"
    /\ lock = FALSE
    /\ threads = NoThreads
    /\ last_reply = None
    /\ pure_call = None

\* The construction, and the first step of a completion call on the object.
NextConstruct ==
    \/ RLM_Init
    \/ GetClientFails
    \/ Fallback
    \/ FallbackRaises
    \/ SpawnContext
    \/ SpawnContextFails

SpecConstruct == InitConstruct /\ [][NextConstruct]_vars


\* ----------------------------------- an RLMLogger driven by its callers
\* The iterations handed to RLMLogger.log, by one completion after another.
LoggedIterations ==
    {RLMIteration(r, <<>>, fa) :
        r \in {<<"x">>, <<"FINAL", "(", "x", ")">>}, fa \in {None, Some(<<"x">>)}}

\* One logger.log(iteration) call.
Logger_Log ==
    /\ iteration_count < MaxLogCalls
    /\ \E it \in LoggedIterations : RLMLogger_log(it)
    /\ UNCHANGED <<config_vars, pc, turn_vars, outcome, result, resource_vars,
                   client_vars, env_vars>>

\* A logger after RLMLogger.__init__.
InitLogger ==
    /\ depth = 0
    /\ max_depth = 1
    /\ max_iterations = MaxIterations
    /\ has_logger = TRUE
    /\ NoController
    /\ IdleState
    /\ pure_call = None
    /\ ProcessAtStart

NextLogger == Logger_Log

SpecLogger == InitLogger /\ [][NextLogger]_vars


\* ================================================================ claims
IsPrefix(a, b) == Len(a) <= Len(b) /\ SubSeq(b, 1, Len(a)) = a

Front(q) == SubSeq(q, 1, Len(q) - 1)

LoopPath == depth < max_depth

Finished == pc \in {"returned", "raised"}

\* C1 (as claimed): when a loop-path completion call has returned or raised,
\* exactly one handler was created, at most one environment, the handler is
\* stopped and no environment is left live.  The code breaks it when the
\* environment's construction raises.
C1_TornDownOnEveryExit ==
    (LoopPath /\ Finished) =>
        /\ handlers_created = 1
        /\ envs_created <= 1
        /\ lm_handler = "stopped"
        /\ environment \in {"none", "cleaned"}

\* C2: the per-completion state machine.  After turn i's iteration is logged
\* the loop ends iff find_final_answer gave a value for the turn's response
\* (which is iff one of the two marker patterns matches it); otherwise the
\* turn counter goes up by one; the loop head starts turn i while
\* i < max_iterations and otherwise makes the one synthesizing call and ends;
\* there is no other way into a turn, to a return or to the next turn.
C2_FoundMarker(text) ==
    MarkerSearch(text, FinalVarLit) /= None \/ MarkerSearch(text, FinalLit) /= None

C2_StateMachine ==
    [][ /\ pc = "decide" =>
             /\ (final_answer /= None) <=> C2_FoundMarker(response)
             /\ IF final_answer /= None
                THEN pc' = "unwind" /\ outcome' = "return" /\ turn' = turn
                     /\ root_prompts' = root_prompts
                ELSE pc' = "loop" /\ turn' = turn + 1 /\ outcome' = "none"
        /\ pc = "loop" =>
             /\ final_answer = None
             /\ IF turn < max_iterations
                THEN pc' = "call" /\ turn' = turn /\ root_prompts' = root_prompts
                ELSE /\ turn = max_iterations
                     /\ pc' = "unwind"
                     /\ Len(root_prompts') = Len(root_prompts) + 1
                     /\ root_prompts'[Len(root_prompts')].kind = "synth"
        /\ pc' = "call" => pc = "loop"
        /\ (turn' /= turn) => (pc = "decide" /\ turn' = turn + 1)
        /\ (LoopPath /\ outcome = "none" /\ outcome' = "return") =>
             pc \in {"decide", "loop"}
        /\ \A k \in 1..Len(root_prompts') :
             root_prompts'[k].kind = "synth" => k = Len(root_prompts') /\ k = max_iterations + 1
      ]_vars

C2_Witness ==
    /\ pc = "returned"
    /\ max_iterations = MaxIterations
    /\ turn = max_iterations
    /\ Len(root_prompts) = max_iterations + 1
    /\ root_prompts[Len(root_prompts)].kind = "synth"

\* C3: the call always comes to an end, and the calls it makes on the root
\* client (lm_handler.completion) number k+1 when the marker is found at turn
\* k, max_iterations+1 when no turn yields one, never more.
C3_CallBudget ==
    /\ Len(root_prompts) <= max_iterations + 1
    /\ (pc = "returned" /\ LoopPath) =>
          IF root_prompts[Len(root_prompts)].kind = "turn"
          THEN final_answer /= None /\ Len(root_prompts) = turn + 1
          ELSE Len(root_prompts) = max_iterations + 1

C3_TerminatesWithinBudget == [](C3_CallBudget) /\ <>(Finished)

C3_Witness ==
    /\ pc = "returned"
    /\ turn = 1
    /\ Len(root_prompts) = 2
    /\ root_prompts[2].kind = "turn"

\* C4 (as claimed): the whole prompt of turn i is a prefix of the prompt of
\* turn i+1.
C4_TurnPairs ==
    {k \in 1..(Len(root_prompts) - 1) :
        root_prompts[k].kind = "turn" /\ root_prompts[k + 1].kind = "turn"}

C4_WholePromptIsPrefix ==
    \A k \in C4_TurnPairs : IsPrefix(root_prompts[k].prompt, root_prompts[k + 1].prompt)

\* C4 (amended): every message of the turn-i prompt but its last one (the
\* per-turn user suffix) stands unchanged at the same position in the
\* turn-(i+1) prompt; in place of the suffix the turn-(i+1) prompt holds the
\* assistant message with turn i's response, and it is longer.
C4_HistoryIsPrefix ==
    \A k \in C4_TurnPairs :
        LET a == root_prompts[k].prompt
            b == root_prompts[k + 1].prompt
        IN  /\ IsPrefix(Front(a), b)
            /\ Len(b) > Len(a)
            /\ a[Len(a)].role = "user"
            /\ b[Len(a)].role = "assistant"

C4_Witness ==
    \E k \in C4_TurnPairs :
        Len(root_prompts[k + 1].prompt) >= Len(root_prompts[k].prompt) + 2

\* C5: the history changes only by the initial assignment and by appending
\* exactly the messages format_iteration gives for a turn without a marker;
\* building the per-turn prompt or the synthesis prompt leaves it unchanged,
\* and the prompt built is the history followed by one message.
C5_HistoryAppendOnly ==
    [][ /\ \/ message_history' = message_history
           \/ /\ pc = "setup"
              /\ message_history = <<>>
           \/ /\ pc = "decide"
              /\ final_answer = None
              /\ message_history' =
                    message_history
                    \o format_iteration(RLMIteration(response, code_blocks, final_answer))
        /\ pc = "loop" =>
              /\ message_history' = message_history
              /\ Front(current_prompt') = message_history
        /\ IsPrefix(message_history, message_history')
      ]_vars

C5_Witness ==
    /\ pc = "call"
    /\ turn = 1
    /\ Len(message_history) >= 3
    /\ current_prompt = message_history \o <<build_user_prompt(turn)>>

\* C10: at depth >= max_depth the call makes one direct client call with the
\* prompt and nothing else: no handler, no environment, no code executed, no
\* root-loop call, no iteration logged.
C10_FallbackBypassesLoop ==
    (depth >= max_depth) =>
        /\ pc \in {"idle", "returned", "raised"}
        /\ lm_handler = "none" /\ handlers_created = 0
        /\ environment = "none" /\ envs_created = 0
        /\ exec_count = 0
        /\ root_prompts = <<>>
        /\ iteration_count = 0 /\ log_file = <<>>
        /\ fallback_prompts = IF Finished THEN <<Prompt>> ELSE <<>>

C10_Witness ==
    /\ depth >= max_depth
    /\ pc = "returned"
    /\ has_logger
    /\ fallback_prompts = <<Prompt>>

\* C6 (as claimed), for the names that are the user's own: after an
\* execute_code call k on a live LocalREPL, every such name without a leading
\* underscore that the code of call k bound has, in the namespace call k+1
\* starts from, the value call k gave it.  The code breaks it when call k
\* raises after the binding.
C6_BindingsPersist ==
    (environment = "live" /\ last_exec.callno > 0) =>
        \A n \in UserNames :
            (~StartsWithUnderscore(n) /\ last_exec.assigned[n] /= Unbound) =>
                Combined(env_globals, env_locals)[n] = last_exec.assigned[n]

\* C7 (as claimed): the rlm_calls of a returned REPL Result holds every
\* sub-query issued during the call, successful or failed, once.
C7_IssuedIds(r) == {r.issued[k].id : k \in 1..Len(r.issued)}

C7_Recorded(r) == {r.result.rlm_calls[k] : k \in 1..Len(r.result.rlm_calls)}

C7_EveryIssuedRecorded ==
    (last_exec.callno > 0 /\ ~last_exec.raised) =>
        /\ C7_Recorded(last_exec) = C7_IssuedIds(last_exec)
        /\ Len(last_exec.result.rlm_calls) = Len(last_exec.issued)

\* C7 (amended): the rlm_calls of a returned REPL Result holds exactly the
\* sub-queries issued during that call that the handler answered with
\* success, each once, in the order issued; a failed sub-query is not in it,
\* and neither is a sub-query of an earlier call (load_context, setup code
\* and FINAL_VAR resolution included).
C7_Answered(r) == SelectSeq(r.issued, LAMBDA q : q.ok)

C7_SuccessfulIssuedRecorded ==
    (last_exec.callno > 0 /\ ~last_exec.raised) =>
        /\ Len(last_exec.result.rlm_calls) = Len(C7_Answered(last_exec))
        /\ \A k \in 1..Len(last_exec.result.rlm_calls) :
             /\ last_exec.result.rlm_calls[k] = C7_Answered(last_exec)[k].id
             /\ last_exec.result.rlm_calls[k].call = last_exec.callno

C7_Witness ==
    /\ environment = "live"
    /\ last_exec.callno > 2
    /\ ~last_exec.raised
    /\ Len(last_exec.result.rlm_calls) = 1
    /\ Len(last_exec.issued) = 2

\* C8 (as claimed): the response stops the loop at the current turn iff a
\* marker FINAL_VAR(...) or FINAL(...) begins at the start of one of its lines.
C8_Loop_Stopped == pc \in {"unwind", "returned"}

C8_Loop_Decided == pc \in {"loop", "unwind", "returned"}

C8_ClosedAfter(text, q) == \E r \in q..Len(text) : text[r] = ")"

C8_MarkerAt(text, q) ==
    \/ HasLiteral(text, q, FinalVarLit) /\ C8_ClosedAfter(text, q + 3)
    \/ HasLiteral(text, q, FinalLit) /\ C8_ClosedAfter(text, q + 2)

C8_BeginsLine(text, q) == q = 1 \/ text[q - 1] = "nl"

C8_OnlyWsBefore(text, q) ==
    \E p \in 1..q :
        /\ C8_BeginsLine(text, p)
        /\ \A k \in p..(q - 1) : text[k] = "sp"

C9_NeverRaises ==
    last_exec.callno > 0 =>
        /\ ~last_exec.raised
        /\ last_exec.exc /= "" =>
              /\ Len(last_exec.result.stderr) >= 3
              /\ SubSeq(last_exec.result.stderr, Len(last_exec.result.stderr) - 2,
                        Len(last_exec.result.stderr)) = ExceptionText(last_exec.exc)

\* C11 (as claimed): every path on which completion returns (a final-answer
\* marker, the loop exhausted, the fallback at maximum depth) returns an RLM
\* Chat Completion record whose prompt is the prompt passed in.  The code
\* breaks it on the fallback path, which returns the bare text of the client.
C11_ReturnsCompletionRecord ==
    pc = "returned" =>
        /\ result /= None
        /\ result[1].kind = "RLMChatCompletion"
        /\ result[1].prompt = Prompt

\* C12: with a logger attached each turn is logged exactly once, in turn
\* order.  A marker at turn k leaves k + 1 records, the last one holding the
\* answer; an exhausted loop leaves max_iterations records of normal turns and
\* exactly one record of the synthesizing turn, whose final_answer and
\* response are the response returned.  A call that raises in turn i leaves
\* the records of the turns before i.
C12_BySynthesis ==
    root_prompts /= <<>> /\ root_prompts[Len(root_prompts)].kind = "synth"

C12_RecordsDue ==
    IF ~has_logger \/ ~LoopPath THEN 0
    ELSE IF pc = "decide" \/ (pc \in {"unwind", "returned", "raised"} /\ result /= None)
         THEN turn + 1
         ELSE turn

C12_Records ==
    /\ Len(log_file) = C12_RecordsDue
    /\ \A k \in 1..Len(log_file) :
         /\ log_file[k].iteration = k
         /\ k < Len(log_file) => log_file[k].final_answer = None
    /\ (pc = "decide" /\ has_logger) =>
         /\ log_file[turn + 1].response = response
         /\ log_file[turn + 1].final_answer = final_answer
         /\ log_file[turn + 1].code_blocks = Len(code_blocks)
    /\ (pc = "returned" /\ has_logger /\ LoopPath) =>
         /\ log_file[Len(log_file)].final_answer = Some(result[1].response)
         /\ C12_BySynthesis =>
              /\ Len(log_file) = max_iterations + 1
              /\ log_file[Len(log_file)].response = result[1].response
              /\ log_file[Len(log_file)].code_blocks = 0

\* Every step that writes to the log appends one record, for the turn that
\* has just been answered.
C12_AppendsCurrentTurn ==
    log_file' /= log_file =>
        /\ Len(log_file') = Len(log_file) + 1
        /\ SubSeq(log_file', 1, Len(log_file)) = log_file
        /\ Len(log_file') = turn' + 1
        /\ log_file'[Len(log_file')].response = response'

C12_EachTurnLoggedOnce == [](C12_Records) /\ [][C12_AppendsCurrentTurn]_vars

C12_Witness ==
    /\ pc = "returned"
    /\ has_logger
    /\ max_iterations = 2
    /\ C12_BySynthesis
    /\ Len(log_file) = 3
    /\ log_file[3].final_answer = Some(result[1].response)

\* C13: whatever sequence of log calls one logger receives, the n-th
\* iteration record of its file has iteration = n: the numbers start at 1, go
\* up by exactly 1 with each record, and never repeat or restart.
C13_NumberedInOrder ==
    /\ Len(log_file) = iteration_count
    /\ \A n \in 1..Len(log_file) : log_file[n].iteration = n

C13_Witness ==
    /\ Len(log_file) = 4
    /\ log_file[4].iteration = 4
    /\ log_file[3].final_answer /= None
    /\ log_file[4].final_answer = None

\* C14: no option whose lower-cased key contains both "api" and "key" is in
\* the metadata emitted at construction.  The backend options and the
\* environment options of the metadata are exactly the entries of the given
\* dicts whose key is not of that kind, with their values, and the given
\* dicts are left as they were.
C14_HasWord(letters, a, b, c) ==
    \E k \in 1..(Len(letters) - 2) :
        letters[k] \in a /\ letters[k + 1] \in b /\ letters[k + 2] \in c

C14_ApiAndKey(key) ==
    /\ C14_HasWord(KeyLetters(key), {"a", "A"}, {"p", "P"}, {"i", "I"})
    /\ C14_HasWord(KeyLetters(key), {"k", "K"}, {"e", "E"}, {"y", "Y"})

C14_Filtered(given, emitted) ==
    /\ DOMAIN emitted = {key \in DOMAIN given : ~C14_ApiAndKey(key)}
    /\ \A key \in DOMAIN emitted : emitted[key] = given[key]

C14_MetadataFiltered ==
    metadata /= None =>
        /\ C14_Filtered(backend_kwargs, metadata[1].backend_kwargs)
        /\ C14_Filtered(environment_kwargs, metadata[1].environment_kwargs)

C14_InputsKept ==
    pc = "unbuilt" =>
        /\ backend_kwargs' = backend_kwargs
        /\ environment_kwargs' = environment_kwargs

C14_NoSecretInMetadata == [](C14_MetadataFiltered) /\ [][C14_InputsKept]_vars

C14_Witness ==
    /\ pc = "idle"
    /\ metadata /= None
    /\ DOMAIN backend_kwargs = {<<"API", "Key">>, <<"Key">>}
    /\ DOMAIN metadata[1].backend_kwargs = {<<"Key">>}
    /\ DOMAIN environment_kwargs = {<<"Key", "API">>}
    /\ metadata[1].environment_kwargs = EmptyDict

\* C16 (as claimed): an unknown backend, an unknown environment kind and a
\* max_depth above 1 are rejected at construction, so no constructed
\* controller holds one.  The code stores them unchecked; the first two only
\* fail inside a completion call, the third never.
C16_ConfigErrorsAtConstruction ==
    pc /= "unbuilt" =>
        /\ backend \in KnownBackends
        /\ environment_type \in KnownEnvironments
        /\ max_depth <= 1

\* C15: max_iterations = 0 is not rejected at construction, and a completion
\* with it runs no normal turn and goes straight to the synthesis: exactly one
\* client call (the synthesizing one), no code block executed, one iteration
\* logged when a logger is attached, and the synthesizing reply returned.
C15_NoTurnThenSynthesis ==
    (max_iterations = 0 /\ LoopPath) =>
        /\ turn = 0
        /\ pc \notin {"call", "exec", "log", "decide"}
        /\ Len(root_prompts) <= 1
        /\ \A k \in 1..Len(root_prompts) : root_prompts[k].kind = "synth"
        /\ fallback_prompts = <<>>
        /\ exec_count <= 1
        /\ pc = "returned" =>
             /\ Len(root_prompts) = 1
             /\ result = Some(RLMChatCompletion(Prompt, response))
             /\ Len(log_file) = IF has_logger THEN 1 ELSE 0
             /\ has_logger => log_file[1].final_answer = Some(response)

C15_Witness ==
    /\ max_iterations = 0
    /\ LoopPath
    /\ pc = "returned"
    /\ has_logger
    /\ Len(log_file) = 1
    /\ Len(root_prompts) = 1
    /\ exec_count = 1

\* C17: when the root client call of turn i raises, the call is not retried
\* and the error is neither swallowed nor turned into an answer: the error
\* leaves the loop as it is, completion ends by raising and returns nothing,
\* no record is logged for turn i, and the records of turns 0..i-1 stay.
C17_CallEnds ==
    pc = "call" =>
        \/ pc' = "exec" /\ response' \in Responses /\ outcome' = "none"
        \/ /\ pc' = "unwind"
           /\ outcome' = "ClientError"
           /\ result' = None
           /\ final_answer' = None
           /\ turn' = turn
           /\ log_file' = log_file
           /\ Len(root_prompts') = Len(root_prompts) + 1

C17_ErrorLeaves ==
    (pc = "unwind" /\ outcome = "ClientError") =>
        /\ pc' = "raised"
        /\ outcome' \in {"ClientError", "TeardownError"}
        /\ result' = None
        /\ root_prompts' = root_prompts
        /\ log_file' = log_file

C17_RecordsKept ==
    (pc \in {"unwind", "raised"} /\ outcome = "ClientError" /\ LoopPath) =>
        /\ result = None
        /\ Len(root_prompts) = turn + 1
        /\ Len(log_file) = IF has_logger THEN turn ELSE 0
        /\ \A k \in 1..Len(log_file) : log_file[k].iteration = k

C17_ClientErrorPropagates ==
    /\ [][C17_CallEnds /\ C17_ErrorLeaves]_vars
    /\ [](C17_RecordsKept)

C17_Witness ==
    /\ pc = "raised"
    /\ outcome = "ClientError"
    /\ turn = 1
    /\ has_logger
    /\ Len(log_file) = 1
    /\ Len(root_prompts) = 2
    /\ root_prompts[2].kind = "turn"

\* C18 (as claimed): teardown errors are ignored.  When stopping the handler
\* or cleaning up the environment raises, the other teardown step still runs,
\* and completion still returns the result, or raises the error, it would have
\* produced.  The code breaks it: an error of lm_handler.stop() skips
\* environment.cleanup() and takes the place of the result.
C18_TeardownErrorsIgnored ==
    (Finished /\ envs_created > 0) =>
        /\ environment = "cleaned"
        /\ outcome /= "TeardownError"
        /\ result /= None => pc = "returned"

\* C19 (as claimed): between setup and cleanup, after any sequence of earlier
\* execute_code calls, each of input, eval, exec, compile, globals and locals
\* evaluates to the inactive value None in executed code: never to a callable
\* primitive.  The code breaks it: a fragment can bind the name (the import
\* machinery is allowed), and the binding persists into the later calls.
C19_BlockedNamesInactive ==
    environment = "live" =>
        \A n \in BlockedNames : Resolve(Combined(env_globals, env_locals), n) = "None"

\* C20: after every execute_code call, on each exit path (the code finished,
\* the code raised, changing the directory failed), the process-wide stdout,
\* stderr and working directory are the ones in effect when the call was
\* entered, and the mutex of the environment is released.
C20_CallRestores ==
    exec_count' /= exec_count =>
        /\ sys_stdout' = sys_stdout
        /\ sys_stderr' = sys_stderr
        /\ cwd' = cwd

C20_ProcessStateRestored == [][C20_CallRestores]_vars /\ [](~lock)

C20_Witness ==
    /\ last_exec.raised
    /\ last_exec.exc = "FileNotFoundError"
    /\ exec_count = 4
    /\ sys_stdout = "redirected_stdout"
    /\ sys_stderr = "stderr"
    /\ cwd = "other_cwd"
    /\ ~lock
    /\ IsBound(env_locals, "x")

\* ---------------------------- execute_code called by several threads
\* The statements the threads run (none fails to compile).
ThreadPrograms == SeqsUpTo({"x=1", "llm_query()", "raise"}, MaxThreadCodeLen)

\* self._pending_llm_calls = [], before the lock is requested.
T_Enter(t) ==
    /\ environment = "live"
    /\ threads[t].at = "out"
    /\ exec_count < MaxCalls
    /\ \E code \in ThreadPrograms :
         threads' = [threads EXCEPT ![t] =
                        [ThreadOutside EXCEPT !.at = "entered", !.code = code,
                                              !.callno = exec_count + 1]]
    /\ exec_count' = exec_count + 1
    /\ pending_llm_calls' = PendingAtEntry(pending_llm_calls)
    /\ UNCHANGED <<config_vars, pc, turn_vars, outcome, result, resource_vars,
                   client_vars, logger_vars, env_globals, env_locals,
                   lm_handler_address, last_exec, process_vars, last_reply,
                   pure_call>>

\* threading.Lock.acquire: a thread gets the lock only while nobody holds it.
LockFree_Always(l) == TRUE

LockFree(l) == ~l

\* with self._lock: the streams are saved and redirected; with _temp_cwd():
\* the directory is saved and changed; combined = {**globals, **locals}.
T_Acquire(t) ==
    /\ threads[t].at = "entered"
    /\ LockFree(lock)
    /\ lock' = TRUE
    /\ sys_stdout' = "stdout_buf"
    /\ sys_stderr' = "stderr_buf"
    /\ cwd' = "temp_dir"
    /\ threads' = [threads EXCEPT ![t] =
                      [@ EXCEPT !.at = "running", !.j = 1,
                                !.old_stdout = sys_stdout, !.old_stderr = sys_stderr,
                                !.old_cwd = cwd,
                                !.st = InterpInit(env_globals, env_locals, <<>>)]]
    /\ UNCHANGED <<config_vars, pc, turn_vars, outcome, result, resource_vars,
                   client_vars, logger_vars, env_globals, env_locals,
                   pending_llm_calls, lm_handler_address, exec_count, last_exec,
                   last_reply,
                   pure_call>>

\* One statement of the code exec() runs.  The pending list is the
\* environment's field, read and written by the helper at that moment.
T_Stmt(t) ==
    /\ threads[t].at = "running"
    /\ threads[t].j <= Len(threads[t].code)
    /\ threads[t].st.status = "ok"
    /\ \E ok \in BOOLEAN :
         LET th == threads[t]
             st == ExecStmt([th.st EXCEPT !.calls = pending_llm_calls],
                            th.code[th.j], QueryId(th.callno, th.j),
                            lm_handler_address, ok)
         IN  /\ pending_llm_calls' = st.calls
             /\ threads' = [threads EXCEPT ![t] =
                               [@ EXCEPT !.j = @ + 1, !.st = st]]
    /\ UNCHANGED <<config_vars, pc, turn_vars, outcome, result, resource_vars,
                   client_vars, logger_vars, env_globals, env_locals,
                   lm_handler_address, exec_count, last_exec, process_vars,
                   last_reply,
                   pure_call>>

\* The end of the try statement: the merge into self.locals when the code
\* finished, the except clause when it raised; stdout and stderr are read.
T_Merge(t) ==
    /\ threads[t].at = "running"
    /\ threads[t].j > Len(threads[t].code) \/ threads[t].st.status /= "ok"
    /\ LET st == threads[t].st
       IN  /\ env_locals' = IF st.status = "ok"
                            THEN MergeLocals(env_globals, env_locals, st.combined)
                            ELSE env_locals
           /\ threads' = [threads EXCEPT ![t] =
                             [@ EXCEPT !.at = "leaving", !.stdout = st.stdout,
                                       !.stderr = IF st.status = "ok" THEN <<>>
                                                  ELSE ExceptionText(st.exc)]]
    /\ UNCHANGED <<config_vars, pc, turn_vars, outcome, result, resource_vars,
                   client_vars, logger_vars, env_globals, pending_llm_calls,
                   lm_handler_address, exec_count, last_exec, process_vars,
                   last_reply,
                   pure_call>>

\* The finally clauses: os.chdir(old_cwd), the streams restored, the lock
\* released.
T_Leave(t) ==
    /\ threads[t].at = "leaving"
    /\ LET path == IF threads[t].st.status = "ok" THEN "ok" ELSE "exc"
       IN  /\ cwd' = RestoreCwd(path, threads[t].old_cwd, cwd)
           /\ sys_stdout' = RestoreStream(path, threads[t].old_stdout, sys_stdout)
           /\ sys_stderr' = RestoreStream(path, threads[t].old_stderr, sys_stderr)
           /\ lock' = LockAfter(path)
    /\ threads' = [threads EXCEPT ![t] = [@ EXCEPT !.at = "returning"]]
    /\ UNCHANGED <<config_vars, pc, turn_vars, outcome, result, resource_vars,
                   client_vars, logger_vars, env_globals, env_locals,
                   pending_llm_calls, lm_handler_address, exec_count, last_exec,
                   last_reply,
                   pure_call>>

\* return REPLResult(..., locals=self.locals.copy(),
\*                   rlm_calls=self._pending_llm_calls.copy())
T_Return(t) ==
    /\ threads[t].at = "returning"
    /\ threads' = [threads EXCEPT ![t] =
                      [ThreadOutside EXCEPT
                          !.result = Some(REPLResult(threads[t].stdout, threads[t].stderr,
                                                     env_locals, pending_llm_calls))]]
    /\ UNCHANGED <<config_vars, pc, turn_vars, outcome, result, resource_vars,
                   client_vars, logger_vars, env_globals, env_locals,
                   pending_llm_calls, lm_handler_address, exec_count, last_exec,
                   process_vars, last_reply,
                   pure_call>>

\* One constructed environment shared by the threads.
InitThreads ==
    /\ depth = 0
    /\ max_depth = 1
    /\ max_iterations = MaxIterations
    /\ has_logger = FALSE
    /\ NoController
    /\ pc = "idle"
    /\ turn = 0
    /\ message_history = <<>>
    /\ current_prompt = <<>>
    /\ response = <<>>
    /\ code_queue = <<>>
    /\ code_blocks = <<>>
    /\ final_answer = None
    /\ outcome = "none"
    /\ result = None
    /\ lm_handler = "none"
    /\ handlers_created = 0
    /\ environment = "live"
    /\ envs_created = 1
    /\ root_prompts = <<>>
    /\ fallback_prompts = <<>>
    /\ iteration_count = 0
    /\ log_file = <<>>
    /\ env_globals = SetupGlobals
    /\ env_locals = NoBindings
    /\ pending_llm_calls = <<>>
    /\ lm_handler_address \in BOOLEAN
    /\ exec_count = 0
    /\ last_exec = NoExec
    /\ ProcessAtStart
    /\ lock = FALSE
    /\ threads = NoThreads
    /\ last_reply = None
    /\ pure_call = None

NextThreads ==
    \E t \in ThreadIds :
        T_Enter(t) \/ T_Acquire(t) \/ T_Stmt(t) \/ T_Merge(t) \/ T_Leave(t) \/ T_Return(t)

SpecThreads == InitThreads /\ [][NextThreads]_vars

\* The threads between the redirection of the streams and their restoration.
C21_Inside == {t \in ThreadIds : threads[t].at \in {"running", "leaving"}}

C21_OneInside ==
    /\ \A t1, t2 \in C21_Inside : t1 = t2
    /\ C21_Inside /= {} => lock
    /\ C21_Inside = {} =>
         /\ sys_stdout = "stdout"
         /\ sys_stderr = "stderr"
         /\ cwd = "original_cwd"

C21_StoreWrittenUnderLock ==
    env_locals' /= env_locals => lock /\ lock' /\ C21_Inside /= {}

\* C21: threads that call execute_code on one environment are serialized by
\* its lock: never are two of them between the redirection of the streams and
\* their restoration (and when none is, the streams and the directory are the
\* process's own), and every step that changes the persistent bindings is
\* taken by a thread that holds the lock.
C21_SerializedByLock == [](C21_OneInside) /\ [][C21_StoreWrittenUnderLock]_vars

\* Both threads are in execute_code, one running after it bound a name, the
\* other waiting for the lock.
C21_Witness ==
    /\ threads["t1"].at = "leaving"
    /\ threads["t2"].at = "entered"
    /\ env_locals["x"] = "1"
    /\ lock

\* ------------------------------- the helpers llm_query, llm_query_batched
\* The prompts of the sub-queries, and what the handler's model replies.
Prompts == {"a", "b"}

ReplyText(prompt) == <<"reply to ", prompt>>

\* How a request to the handler ends: a response with success = true, a
\* response with success = false, or an Exception raised by the transport.
SendOutcomes == {"reply", "failure", "exception"}

NoHandlerError == <<"Error: ", "No LM handler configured">>

\* f"Error: {response.error}"
ResponseError == <<"Error: ", "response.error">>

\* f"Error: LM query failed - {e}"
QueryFailedError == <<"Error: ", "LM query failed - ", "e">>

\* The completion record appended to self._pending_llm_calls.
ChatCompletionOf(prompt) == [prompt |-> prompt, response |-> ReplyText(prompt)]

\* LocalREPL._llm_query(prompt): what the call gives back (value, or raised)
\* and what it appends to self._pending_llm_calls.
llm_query_reply_Propagates(addr, prompt, sent) ==
    IF ~addr THEN [raised |-> FALSE, value |-> NoHandlerError, calls |-> <<>>]
    ELSE CASE sent = "exception" ->
                [raised |-> TRUE, value |-> <<>>, calls |-> <<>>]
           [] sent = "failure" ->
                [raised |-> FALSE, value |-> ResponseError, calls |-> <<>>]
           [] OTHER ->
                [raised |-> FALSE, value |-> ReplyText(prompt),
                 calls |-> <<ChatCompletionOf(prompt)>>]

llm_query_reply(addr, prompt, sent) ==
    IF ~addr THEN [raised |-> FALSE, value |-> NoHandlerError, calls |-> <<>>]
    ELSE CASE sent = "exception" ->
                [raised |-> FALSE, value |-> QueryFailedError, calls |-> <<>>]
           [] sent = "failure" ->
                [raised |-> FALSE, value |-> ResponseError, calls |-> <<>>]
           [] OTHER ->
                [raised |-> FALSE, value |-> ReplyText(prompt),
                 calls |-> <<ChatCompletionOf(prompt)>>]

\* One llm_query(prompt) call on a constructed environment.
REPL_LlmQuery ==
    /\ environment = "live"
    /\ Len(pending_llm_calls) < MaxCalls
    /\ \E prompt \in Prompts, sent \in SendOutcomes :
         LET r == llm_query_reply(lm_handler_address, prompt, sent)
         IN  /\ last_reply' = Some([helper |-> "llm_query", prompts |-> <<prompt>>,
                                     sent |-> <<sent>>, order |-> <<1>>,
                                     transport_ok |-> sent /= "exception",
                                     raised |-> r.raised, value |-> r.value])
             /\ pending_llm_calls' = pending_llm_calls \o r.calls
    /\ UNCHANGED <<config_vars, pc, turn_vars, outcome, result, resource_vars,
                   client_vars, logger_vars, env_globals, env_locals,
                   lm_handler_address, exec_count, last_exec, process_vars, threads,
                   pure_call>>

\* A response of the handler to one prompt.
LMResponse(prompt, sent) ==
    [success |-> sent = "reply", chat_completion |-> ChatCompletionOf(prompt)]

\* The orders in which the n requests of a batch can complete.
CompletionOrders(n) ==
    {order \in [1..n -> 1..n] : \A i \in 1..n : \E k \in 1..n : order[k] = i}

\* send_lm_request_batched (comms_utils.py, absent): the handler runs the
\* requests concurrently, the k-th to complete being the one of index
\* order[k], and the responses are put back in the order of the prompts.
send_lm_request_batched(prompts, sent, order) ==
    LET n == Len(prompts)
        completed == [k \in 1..n |->
                         [index |-> order[k],
                          response |-> LMResponse(prompts[order[k]], sent[order[k]])]]
    IN  [i \in 1..n |-> completed[CHOOSE k \in 1..n : completed[k].index = i].response]

\* The entry llm_query_batched puts in its result for one response.
BatchEntry(resp) ==
    IF ~resp.success THEN ResponseError ELSE resp.chat_completion.response

RECURSIVE BatchCalls_Reversed(_)
BatchCalls_Reversed(responses) ==
    IF responses = <<>> THEN <<>>
    ELSE BatchCalls_Reversed(Tail(responses))
         \o (IF Head(responses).success THEN <<Head(responses).chat_completion>>
             ELSE <<>>)

\* The successful responses' completion records, in the order of the list.
RECURSIVE BatchCalls(_)
BatchCalls(responses) ==
    IF responses = <<>> THEN <<>>
    ELSE (IF Head(responses).success THEN <<Head(responses).chat_completion>> ELSE <<>>)
         \o BatchCalls(Tail(responses))

\* LocalREPL._llm_query_batched(prompts): the list it returns and what it
\* appends to self._pending_llm_calls.  transport_ok: the request raised no
\* Exception.
llm_query_batched_Aggregate(addr, prompts, sent, order, transport_ok) ==
    IF ~addr
    THEN [raised |-> FALSE, value |-> [i \in 1..Len(prompts) |-> NoHandlerError],
          calls |-> <<>>]
    ELSE IF ~transport_ok \/ \E i \in 1..Len(prompts) : sent[i] /= "reply"
         THEN [raised |-> FALSE,
               value |-> [i \in 1..Len(prompts) |-> QueryFailedError], calls |-> <<>>]
         ELSE LET responses == send_lm_request_batched(prompts, sent, order)
              IN  [raised |-> FALSE,
                   value |-> [i \in 1..Len(responses) |-> BatchEntry(responses[i])],
                   calls |-> BatchCalls(responses)]

llm_query_batched(addr, prompts, sent, order, transport_ok) ==
    IF ~addr
    THEN [raised |-> FALSE, value |-> [i \in 1..Len(prompts) |-> NoHandlerError],
          calls |-> <<>>]
    ELSE IF ~transport_ok
         THEN [raised |-> FALSE,
               value |-> [i \in 1..Len(prompts) |-> QueryFailedError], calls |-> <<>>]
         ELSE LET responses == send_lm_request_batched(prompts, sent, order)
              IN  [raised |-> FALSE,
                   value |-> [i \in 1..Len(responses) |-> BatchEntry(responses[i])],
                   calls |-> BatchCalls(responses)]

\* One llm_query_batched(prompts) call on a constructed environment.
REPL_LlmQueryBatched ==
    /\ environment = "live"
    /\ Len(pending_llm_calls) < MaxCalls
    /\ \E prompts \in SeqsUpTo(Prompts, MaxBatch), transport_ok \in BOOLEAN :
         \E sent \in [1..Len(prompts) -> {"reply", "failure"}],
            order \in IF lm_handler_address /\ transport_ok
                      THEN CompletionOrders(Len(prompts))
                      ELSE {[i \in 1..Len(prompts) |-> i]} :
           LET r == llm_query_batched(lm_handler_address, prompts, sent, order,
                                      transport_ok)
           IN  /\ last_reply' = Some([helper |-> "llm_query_batched",
                                       prompts |-> prompts, sent |-> sent,
                                       order |-> order,
                                       transport_ok |-> transport_ok,
                                       raised |-> r.raised, value |-> r.value])
               /\ pending_llm_calls' = pending_llm_calls \o r.calls
    /\ UNCHANGED <<config_vars, pc, turn_vars, outcome, result, resource_vars,
                   client_vars, logger_vars, env_globals, env_locals,
                   lm_handler_address, exec_count, last_exec, process_vars, threads,
                   pure_call>>

\* shutil.rmtree(self.temp_dir): the directory is there while the environment
\* is live; once removed, rmtree raises FileNotFoundError.
rmtree(env) ==
    IF env = "live" THEN [raised |-> FALSE, exc |-> ""]
    ELSE [raised |-> TRUE, exc |-> "FileNotFoundError"]

\* cleanup: try: shutil.rmtree(...) except Exception: pass -- what leaves the
\* call ("" when nothing does).
CleanupRaises_Unguarded(rm) == IF rm.raised THEN rm.exc ELSE ""

CleanupRaises(rm) == ""

\* __del__: self.cleanup(), on an environment that is live or was cleaned up
\* before (teardown, then finalization of the object).
REPL_Del ==
    /\ environment \in {"live", "cleaned"}
    /\ LET e == CleanupRaises(rmtree(environment))
       IN  /\ last_reply' = Some([helper |-> "cleanup", was |-> environment,
                                   raised |-> e /= ""])
           /\ IF e = ""
              THEN /\ environment' = "cleaned"
                   /\ env_globals' = NoBindings
                   /\ env_locals' = NoBindings
              ELSE UNCHANGED <<environment, env_globals, env_locals>>
    /\ UNCHANGED <<config_vars, pc, turn_vars, outcome, result, lm_handler,
                   handlers_created, envs_created, client_vars, logger_vars,
                   pending_llm_calls, lm_handler_address, exec_count, last_exec,
                   process_vars, threads, pure_call>>

NextHelpers ==
    REPL_Construct \/ REPL_LlmQuery \/ REPL_LlmQueryBatched \/ REPL_Cleanup \/ REPL_Del

SpecHelpers == InitREPL /\ [][NextHelpers]_vars

C22_IsErrorString(s) == Len(s) > 0 /\ s[1] = "Error: "

\* C22: llm_query never raises to the code that calls it: without a handler
\* address, after a transport failure or after a response with success =
\* false it returns a string that begins with Error: , and otherwise it
\* returns the text of the reply.
C22_QueryNeverRaises ==
    (last_reply /= None /\ last_reply[1].helper = "llm_query") =>
        LET r == last_reply[1]
        IN  /\ ~r.raised
            /\ IF lm_handler_address /\ r.sent[1] = "reply"
               THEN r.value = ReplyText(r.prompts[1])
               ELSE C22_IsErrorString(r.value)

\* A query whose transport raised was answered with an error string.
C22_Witness ==
    /\ last_reply /= None
    /\ last_reply[1].helper = "llm_query"
    /\ lm_handler_address
    /\ last_reply[1].sent[1] = "exception"
    /\ C22_IsErrorString(last_reply[1].value)

\* C23: llm_query_batched(prompts) returns one entry per prompt, entry i
\* standing for prompts[i] whatever the order in which the requests complete:
\* an Error: string where that request failed (or where the whole batch did),
\* the reply to that prompt otherwise.
C23_BatchedInInputOrder ==
    (last_reply /= None /\ last_reply[1].helper = "llm_query_batched") =>
        LET r == last_reply[1]
        IN  /\ ~r.raised
            /\ Len(r.value) = Len(r.prompts)
            /\ \A i \in 1..Len(r.prompts) :
                 IF lm_handler_address /\ r.transport_ok /\ r.sent[i] = "reply"
                 THEN r.value[i] = ReplyText(r.prompts[i])
                 ELSE C22_IsErrorString(r.value[i])

\* A batch of two different prompts of which the first failed and the second
\* was answered.
C23_Witness ==
    /\ last_reply /= None
    /\ last_reply[1].helper = "llm_query_batched"
    /\ lm_handler_address
    /\ last_reply[1].prompts = <<"a", "b">>
    /\ last_reply[1].transport_ok
    /\ last_reply[1].sent = <<"failure", "reply">>
    /\ last_reply[1].value = <<ResponseError, ReplyText("b")>>

\* The name a line-start FINAL_VAR marker of the response gives, when that
\* name is no persistent user binding at the end of the turn (teardown empties
\* the store afterwards; last_exec keeps the bindings of the last call).
C24_MissingName ==
    LET mv == MarkerSearch(response, FinalVarLit)
    IN  IF mv = None THEN None
        ELSE LET name == FinalVarNameOf(mv[1])
             IN  IF Len(name) = 1 /\ IsBound(last_exec.locals, name[1]) THEN None
                 ELSE Some(name)

C24_ErrorString(name) == <<"Error: Variable ">> \o name \o <<" not found">>

\* C24: when the response holds a line-start FINAL_VAR(name) marker and name
\* is no persistent user binding, the turn is treated as final with the
\* helper's error string as the answer: the resolving execute_code call does
\* not raise, the loop does not go on to another turn, and the completion's
\* response is Error: Variable <name> not found.
C24_MissingBindingEndsWithError ==
    (pc \in {"log", "decide", "loop", "unwind", "returned"} /\ C24_MissingName /= None) =>
        /\ final_answer = Some(C24_ErrorString(C24_MissingName[1]))
        /\ ~last_exec.raised
        /\ last_exec.result.stderr = <<>>
        /\ pc /= "loop"
        /\ turn = 0
        /\ pc \in {"unwind", "returned"} =>
             /\ outcome = "return"
             /\ result = Some(RLMChatCompletion(Prompt, C24_ErrorString(C24_MissingName[1])))

\* The completion returned the error string for the unbound name FINAL.
C24_Witness ==
    /\ pc = "returned"
    /\ response = <<"FINAL", "_VAR", "(", "FINAL", ")">>
    /\ result = Some(RLMChatCompletion(Prompt, <<"Error: Variable ", "FINAL", " not found">>))

\* ------------------------------------ load_context: the json round trip
\* Python values: None, True, an int, a str, a list, a tuple, a dict (its
\* entries in insertion order; a key is a str or an int).
PyNone == [t |-> "NoneType"]
PyBool(b) == [t |-> "bool", b |-> b]
PyInt(n) == [t |-> "int", n |-> n]
PyStr(s) == [t |-> "str", s |-> s]
PyList(items) == [t |-> "list", items |-> items]
PyTuple(items) == [t |-> "tuple", items |-> items]
PyDict(entries) == [t |-> "dict", entries |-> entries]

\* The nodes of a JSON document.
JNull == [j |-> "null"]
JTrue == [j |-> "true"]
JNumber(n) == [j |-> "number", n |-> n]
JString(s) == [j |-> "string", s |-> s]
JArray(items) == [j |-> "array", items |-> items]
JObject(members) == [j |-> "object", members |-> members]

\* json.dump writes a key of a dict as a string: a str as it is, an int by
\* its digits.
DumpKey(k) == IF k.t = "str" THEN k.s ELSE ToString(k.n)

\* json.dump(value): the document written to context.json.
RECURSIVE Dump(_)
Dump(v) ==
    CASE v.t = "NoneType" -> JNull
      [] v.t = "bool" -> JTrue
      [] v.t = "int" -> JNumber(v.n)
      [] v.t = "str" -> JString(v.s)
      [] v.t \in {"list", "tuple"} ->
           JArray([i \in 1..Len(v.items) |-> Dump(v.items[i])])
      [] OTHER ->
           JObject([i \in 1..Len(v.entries) |->
                       [name |-> DumpKey(v.entries[i].key),
                        value |-> Dump(v.entries[i].value)]])

\* dict(pairs): a name that occurs again keeps its first place and takes the
\* later value.
RECURSIVE DictOfPairs(_)
DictOfPairs(pairs) ==
    IF pairs = <<>> THEN <<>>
    ELSE LET n == Len(pairs)
             front == DictOfPairs(SubSeq(pairs, 1, n - 1))
             last == pairs[n]
         IN  IF \E i \in 1..Len(front) : front[i].key = last.key
             THEN [i \in 1..Len(front) |->
                      IF front[i].key = last.key THEN last ELSE front[i]]
             ELSE Append(front, last)

\* json.load(document): the value bound to context.
RECURSIVE Load(_)
Load(d) ==
    CASE d.j = "null" -> PyNone
      [] d.j = "true" -> PyBool(TRUE)
      [] d.j = "number" -> PyInt(d.n)
      [] d.j = "string" -> PyStr(d.s)
      [] d.j = "array" -> PyList([i \in 1..Len(d.items) |-> Load(d.items[i])])
      [] OTHER ->
           PyDict(DictOfPairs([i \in 1..Len(d.members) |->
                                  [key |-> PyStr(d.members[i].name),
                                   value |-> Load(d.members[i].value)]]))

\* load_context(payload), payload not a str: the value of context afterwards.
load_context_AsText(payload) == PyStr("json text")

load_context(payload) == Load(Dump(payload))

\* The payloads load_context is given.
Scalars == {PyNone, PyBool(TRUE), PyInt(1), PyStr("1")}

DictKeys == {PyStr("1"), PyInt(1)}

ListsOf(S) == {PyList(items) : items \in SeqsUpTo(S, MaxPayloadLen)}

TuplesOf(S) == {PyTuple(items) : items \in SeqsUpTo(S, MaxPayloadLen)}

DictsOf(S) ==
    {PyDict(entries) :
        entries \in {e \in SeqsUpTo([key : DictKeys, value : S], MaxPayloadLen) :
                        \A i, k \in 1..Len(e) : e[i].key = e[k].key => i = k}}

Inner == Scalars \cup ListsOf({PyInt(1)}) \cup DictsOf({PyInt(1)})

Payloads == ListsOf(Inner) \cup TuplesOf(Inner) \cup DictsOf(Inner)

\* ------------------------- functions and conversions applied to inputs
\* The formatted results the truncation step is given: strings of every
\* length near the cap (a character is an element).
FormattedResults ==
    {[i \in 1..n |-> "c"] :
        n \in (max_character_length - MaxAroundCap)..(max_character_length + MaxAroundCap)}

\* A function about to be applied to arg; rets are the values returned so
\* far.
PureCall(fn, arg) == Some([fn |-> fn, arg |-> arg, rets |-> <<>>])

\* The truncation step of format_iteration, applied to the formatted result
\* and then once more to what it returned.
Apply_Truncate ==
    /\ pure_call /= None
    /\ pure_call[1].fn = "truncate"
    /\ Len(pure_call[1].rets) < 2
    /\ LET c == pure_call[1]
           text == IF c.rets = <<>> THEN c.arg ELSE c.rets[Len(c.rets)]
       IN  pure_call' = Some([c EXCEPT !.rets =
                                 Append(@, Truncate(text, max_character_length))])
    /\ UNCHANGED <<config_vars, pc, turn_vars, outcome, result, resource_vars,
                   client_vars, logger_vars, env_globals, env_locals,
                   pending_llm_calls, lm_handler_address, exec_count, last_exec,
                   process_vars, threads, last_reply>>

\* load_context(payload) with a payload that is not a str.
Apply_LoadContext ==
    /\ pure_call /= None
    /\ pure_call[1].fn = "load_context"
    /\ pure_call[1].rets = <<>>
    /\ pure_call' = Some([pure_call[1] EXCEPT !.rets = <<load_context(pure_call[1].arg)>>])
    /\ UNCHANGED <<config_vars, pc, turn_vars, outcome, result, resource_vars,
                   client_vars, logger_vars, env_globals, env_locals,
                   pending_llm_calls, lm_handler_address, exec_count, last_exec,
                   process_vars, threads, last_reply>>

InitFunctions ==
    /\ depth = 0
    /\ max_depth = 1
    /\ max_iterations = MaxIterations
    /\ has_logger = FALSE
    /\ NoController
    /\ IdleState
    /\ ProcessAtStart
    /\ \/ \E text \in FormattedResults : pure_call = PureCall("truncate", text)
       \/ \E payload \in Payloads : pure_call = PureCall("load_context", payload)

NextFunctions == Apply_Truncate \/ Apply_LoadContext

SpecFunctions == InitFunctions /\ [][NextFunctions]_vars

\* C25: the truncation step of format_iteration is idempotent for its fixed
\* cap: applied to a string it has already truncated, it returns that string
\* unchanged.
C25_TruncationIdempotent ==
    (pure_call /= None /\ pure_call[1].fn = "truncate" /\ Len(pure_call[1].rets) = 2) =>
        pure_call[1].rets[2] = pure_call[1].rets[1]

\* A value whose lists hold JSON-shaped values and whose dicts have str keys
\* and JSON-shaped values: what a JSON document can stand for.
RECURSIVE C28_JsonShaped(_)
C28_JsonShaped(v) ==
    CASE v.t \in {"NoneType", "bool", "int", "str"} -> TRUE
      [] v.t = "list" -> \A i \in 1..Len(v.items) : C28_JsonShaped(v.items[i])
      [] v.t = "dict" ->
           \A i \in 1..Len(v.entries) :
               v.entries[i].key.t = "str" /\ C28_JsonShaped(v.entries[i].value)
      [] OTHER -> FALSE

C28_Loaded ==
    pure_call /= None /\ pure_call[1].fn = "load_context" /\ pure_call[1].rets /= <<>>

\* C28: for every structured, JSON-shaped payload p (a list or a dict with
\* str keys, of such values and scalars), the value bound to context after
\* load_context(p) is deep-equal to p.
C28_ContextEqualsPayload ==
    (C28_Loaded /\ C28_JsonShaped(pure_call[1].arg)) =>
        pure_call[1].rets[1] = pure_call[1].arg

\* A list that holds a dict and a str was loaded.
C28_Witness ==
    /\ C28_Loaded
    /\ pure_call[1].arg =
         PyList(<<PyDict(<<[key |-> PyStr("1"), value |-> PyInt(1)]>>), PyStr("1")>>)
    /\ pure_call[1].rets[1] = pure_call[1].arg

\* The turn is not final and its record is about to be appended.
C26_Appending == pc = "decide" /\ pc' = "loop"

C26_Added == SubSeq(message_history', Len(message_history) + 1, Len(message_history'))

\* C26: what format_iteration returns for a turn, and what the history grows
\* by when it is appended, is 1 + len(code_blocks) messages: the assistant
\* message with the raw response, then one user message per code block, in
\* the order of the blocks (each quoting its own code); with no code block,
\* the assistant message alone.
C26_OneMessagePerBlock ==
    [][C26_Appending =>
          /\ Len(message_history') = Len(message_history) + 1 + Len(code_blocks)
          /\ IsPrefix(message_history, message_history')
          /\ C26_Added[1] = Message("assistant", response)
          /\ \A k \in 1..Len(code_blocks) :
                /\ C26_Added[1 + k].role = "user"
                /\ IsPrefix(<<"Code executed:">> \o code_blocks[k].code \o <<"REPL output:">>,
                            C26_Added[1 + k].content)
      ]_vars

\* A turn with two code blocks was appended: three messages after the system
\* prompt.
C26_Witness ==
    /\ pc = "loop"
    /\ turn = 1
    /\ Len(code_blocks) = 2
    /\ Len(message_history) = Len(build_rlm_system_prompt) + 3
    /\ message_history[Len(message_history)].content[2] = "print"

\* A cleanup call on an environment that was cleaned up before.
C27_SecondCleanup ==
    /\ environment = "cleaned"
    /\ last_reply' /= None
    /\ last_reply'[1].helper = "cleanup"

C27_Cleaned ==
    environment = "cleaned" => env_globals = NoBindings /\ env_locals = NoBindings

\* C27: cleanup is idempotent: called again after a cleanup (teardown, then
\* the finalization of the object) it raises nothing and leaves the
\* environment as the first call left it, the temp directory removed and the
\* bindings empty.
C27_CleanupIdempotent ==
    [](C27_Cleaned)
    /\ [][C27_SecondCleanup =>
             /\ ~last_reply'[1].raised
             /\ environment' = "cleaned"
             /\ env_globals' = env_globals
             /\ env_locals' = env_locals
             /\ UNCHANGED <<pending_llm_calls, lm_handler_address, exec_count, last_exec,
                            process_vars>>
         ]_vars

\* An environment that ran code was cleaned up and then finalized.
C27_Witness ==
    /\ environment = "cleaned"
    /\ exec_count = 2
    /\ last_reply /= None
    /\ last_reply[1].helper = "cleanup"
    /\ last_reply[1].was = "cleaned"
    /\ ~last_reply[1].raised

\* ------------------------------ two completions on the same controller
\* completion(prompt) is called again after a first call that went through
\* the loop has ended.  The first call's frame is gone (its locals are
\* unbound in the new frame); the objects it created stay as teardown left
\* them, the caller keeps what it was returned, and the records of the
\* calls made (prompts sent, code run) start again for the new call.
CompletionAgain ==
    /\ Finished
    /\ handlers_created = 1
    /\ pc' = "idle"
    /\ turn' = 0
    /\ message_history' = <<>>
    /\ current_prompt' = <<>>
    /\ response' = <<>>
    /\ code_queue' = <<>>
    /\ code_blocks' = <<>>
    /\ final_answer' = None
    /\ outcome' = "none"
    /\ root_prompts' = <<>>
    /\ fallback_prompts' = <<>>
    /\ exec_count' = 0
    /\ last_exec' = NoExec
    /\ UNCHANGED <<config_vars, result, resource_vars, logger_vars, env_globals,
                   env_locals, pending_llm_calls, lm_handler_address, process_vars,
                   caller_vars>>

\* A controller without a logger, called at depth 0.
InitTwice ==
    /\ Init
    /\ depth = 0
    /\ ~has_logger

NextTwice == Next \/ CompletionAgain

SpecTwice == InitTwice /\ [][NextTwice]_vars

\* The second completion has spawned its handler and environment.
C29_Second == handlers_created = 2

C29_OnlyContextBound ==
    \A n \in UserNames \cup BlockedNames \cup GlobalNames :
        n /= "context" => env_locals[n] = Unbound

\* C29: nothing carries over from a first completion to a second one on the
\* same controller: when the second completion enters its loop its message
\* history is the rendered system prompt alone, the first prompt it sends is
\* that history plus the turn-0 user message, and its environment binds
\* nothing but the loaded context.
C29_SecondStartsFresh ==
    C29_Second =>
        /\ pc = "setup" => C29_OnlyContextBound
        /\ (pc \in {"loop", "call"} /\ turn = 0) =>
             /\ message_history = build_rlm_system_prompt
             /\ C29_OnlyContextBound
        /\ (pc = "call" /\ turn = 0) =>
             current_prompt = build_rlm_system_prompt \o <<build_user_prompt(0)>>
        /\ (pc = "exec" /\ turn = 0 /\ Len(code_blocks) = 0) => C29_OnlyContextBound

\* The first completion bound x to 2 and returned it; the second is about to
\* make its first client call.
C29_Witness ==
    /\ C29_Second
    /\ pc = "call"
    /\ turn = 0
    /\ result = Some(RLMChatCompletion(Prompt, <<"2">>))
    /\ env_locals["x"] = Unbound

\* The codes of a sequence of blocks, one after the other.
RECURSIVE C30_Codes(_)
C30_Codes(blocks) ==
    IF blocks = <<>> THEN <<>> ELSE Head(blocks).code \o C30_Codes(Tail(blocks))

RECURSIVE C30_Concat(_)
C30_Concat(codes) ==
    IF codes = <<>> THEN <<>> ELSE Head(codes) \o C30_Concat(Tail(codes))

\* a occurs in b, its elements in their order.
RECURSIVE C30_InOrderWithin(_, _)
C30_InOrderWithin(a, b) ==
    IF a = <<>> THEN TRUE
    ELSE IF b = <<>> THEN FALSE
    ELSE IF Head(a) = Head(b) THEN C30_InOrderWithin(Tail(a), Tail(b))
    ELSE C30_InOrderWithin(a, Tail(b))

C30_TurnCalls == Len(SelectSeq(root_prompts, LAMBDA p : p.kind = "turn"))

\* n iterations were logged (none ever is without a logger).
C30_Logged(n) == Len(log_file) = IF has_logger THEN n ELSE 0

\* Where turn number turn stands at each position of the loop.
C30_Phase ==
    /\ pc = "call" => C30_TurnCalls = turn /\ C30_Logged(turn)
    /\ pc = "exec" =>
         /\ C30_TurnCalls = turn + 1
         /\ C30_Logged(turn)
         /\ final_answer = None
         /\ C30_InOrderWithin(C30_Codes(code_blocks) \o C30_Concat(code_queue), response)
    /\ pc = "log" =>
         /\ C30_TurnCalls = turn + 1
         /\ C30_Logged(turn)
         /\ code_queue = <<>>
         /\ C30_InOrderWithin(C30_Codes(code_blocks), response)
         /\ (MarkerSearch(response, FinalVarLit) = Some(<<"x">>) /\ IsBound(env_locals, "x"))
               => final_answer = Some(<<env_locals["x"]>>)
    /\ pc = "decide" =>
         /\ C30_TurnCalls = turn + 1
         /\ C30_Logged(turn + 1)
         /\ code_queue = <<>>

\* What each step of a turn is followed by.
C30_Steps ==
    /\ pc = "call" => pc' \in {"exec", "unwind"}
    /\ (pc = "exec" /\ code_queue /= <<>>) =>
          \/ pc' = "unwind"
          \/ /\ pc' = "exec"
             /\ exec_count' = exec_count + 1
             /\ code_queue' = Tail(code_queue)
             /\ code_blocks' = Append(code_blocks, [code |-> Head(code_queue),
                                                    result |-> last_exec'.result])
             /\ UNCHANGED <<root_prompts, log_file, message_history, final_answer>>
    /\ (pc = "exec" /\ code_queue = <<>>) =>
          /\ pc' = "log"
          /\ UNCHANGED <<root_prompts, log_file, message_history, code_blocks>>
    /\ pc = "log" =>
          /\ pc' = "decide"
          /\ UNCHANGED <<root_prompts, exec_count, message_history, final_answer>>
    /\ pc = "decide" =>
          /\ pc' \in {"loop", "unwind"}
          /\ pc' = "loop" => turn' = turn + 1
          /\ UNCHANGED <<root_prompts, exec_count, log_file>>
    /\ root_prompts' /= root_prompts => pc \in {"call", "loop"}
    /\ exec_count' /= exec_count => pc \in {"idle", "exec"}
    /\ log_file' /= log_file => pc \in {"log", "loop"}

\* C30: the steps of a turn are taken one after the other and end before the
\* next turn begins: the root client call; execute_code for each fenced block
\* in source order, one block after the other; the resolution of the final
\* marker against the response, FINAL_VAR reading the bindings the turn's
\* blocks made; the logging of the iteration; then the return or the append
\* to the history.  When the client call of turn i is made, i calls were made
\* and i iterations logged before it.
C30_TurnStepsInOrder == [](C30_Phase) /\ [][C30_Steps]_vars

\* The second turn ran two blocks, resolved FINAL_VAR(x) to the value its
\* first block bound, and logged the iteration.
C30_Witness ==
    /\ pc = "decide"
    /\ turn = 1
    /\ has_logger
    /\ Len(code_blocks) = 2
    /\ code_blocks[1].code = <<"x=2">>
    /\ final_answer = Some(<<"2">>)
    /\ Len(log_file) = 2

\* A marker that stands after nothing but whitespace on its line and has a
\* closing parenthesis somewhere after it.
C31_HasMarker(text, lit) ==
    \E q \in 1..Len(text) :
        /\ HasLiteral(text, q, lit)
        /\ C8_ClosedAfter(text, q + Len(lit))
        /\ C8_OnlyWsBefore(text, q)

C31_Resolved(r) ==
    IF Strip(r.stdout) = <<>> THEN Strip(r.stderr) ELSE Strip(r.stdout)

\* C31: exactly one marker determines the answer, FINAL_VAR first.  When the
\* response holds a line-start FINAL_VAR(...) anywhere, the answer is what
\* the resolving execute_code call printed (its stderr when it printed
\* nothing), even when a line-start FINAL(...) stands earlier in the text;
\* the literal of FINAL(...) is the answer only when no FINAL_VAR matches,
\* and then no code is run; with neither marker the answer is absent.
C31_FinalVarTakesPrecedence ==
    pc = "log" =>
        IF C31_HasMarker(response, FinalVarLit)
        THEN /\ exec_count = 3
             /\ last_exec.callno = 3
             /\ ~last_exec.raised
             /\ final_answer = Some(C31_Resolved(last_exec.result))
        ELSE /\ exec_count = 2
             /\ last_exec.callno = 2
             /\ IF C31_HasMarker(response, FinalLit)
                THEN /\ final_answer /= None
                     /\ final_answer = Some(Strip(MarkerSearch(response, FinalLit)[1]))
                ELSE final_answer = None

\* A line-start FINAL( ) stands before a line-start FINAL_VAR(x), and the
\* answer is the value bound to x.
C31_Witness ==
    /\ pc = "log"
    /\ response = <<"FINAL", "(", "sp", ")", "nl", "FINAL", "_VAR", "(", "x", ")">>
    /\ final_answer = Some(<<"1">>)
    /\ exec_count = 3

C32_Count(text, a, b, tok) == Cardinality({k \in a..b : text[k] = tok})

\* The closing parentheses at or after a that match the parenthesis opened
\* just before a: as many were opened as closed in between.
C32_MatchingClose(text, a) ==
    {r \in a..Len(text) :
        /\ text[r] = ")"
        /\ C32_Count(text, a, r - 1, "(") = C32_Count(text, a, r - 1, ")")
        /\ \A k \in a..(r - 1) :
               text[k] = ")" =>
                   C32_Count(text, a, k - 1, "(") > C32_Count(text, a, k - 1, ")")}

\* Where the first FINAL( marker of the text opens its literal.
C32_LiteralStart(text) ==
    Min({q + 2 : q \in {p \in 1..Len(text) :
                           /\ HasLiteral(text, p, FinalLit)
                           /\ C8_ClosedAfter(text, p + 2)
                           /\ C8_OnlyWsBefore(text, p)}})

\* C32: for a FINAL(<literal>) response the answer is the whole text between
\* the opening parenthesis of the marker and its matching closing
\* parenthesis, trimmed, also when the literal holds parentheses or spans
\* several lines.
C32_WholeLiteralReturned ==
    (/\ pc = "log"
     /\ ~C31_HasMarker(response, FinalVarLit)
     /\ C31_HasMarker(response, FinalLit)
     /\ C32_MatchingClose(response, C32_LiteralStart(response)) /= {}) =>
        LET a == C32_LiteralStart(response)
            r == Min(C32_MatchingClose(response, a))
        IN  final_answer = Some(Strip(SubSeq(response, a, r - 1)))

\* The part of C32 that holds: a literal without parentheses is returned
\* whole, also across line breaks.
C32_FlatLiteralReturned ==
    (/\ pc = "log"
     /\ response = <<"x", "nl", "FINAL", "(", "x", "nl", "x", ")">>) =>
        final_answer = Some(<<"x", "nl", "x">>)

\* FINAL(x(x)) yields x(x and not x(x).
C32_Truncated ==
    /\ pc = "log"
    /\ response = <<"FINAL", "(", "x", "(", "x", ")", ")">>
    /\ final_answer = Some(<<"x", "(", "x">>)

\* The completion records of the answered prompts of a helper call, taken in
\* the order idxs of their indices.
C33_Completions(r, idxs) ==
    LET answered == SelectSeq(idxs, LAMBDA i : r.sent[i] = "reply")
    IN  [k \in 1..Len(answered) |-> ChatCompletionOf(r.prompts[answered[k]])]

\* A helper call that appended to the list of nested calls.
C33_Appended ==
    /\ environment = "live"
    /\ environment' = "live"
    /\ pending_llm_calls' /= pending_llm_calls
    /\ last_reply' /= None

\* C33 (as stated): the list of nested calls is built in completion order:
\* every llm_query entry is appended after the entries of the calls before
\* it, and the entries of one llm_query_batched call stand in the order in
\* which its sub-queries completed.
C33_BuiltInCompletionOrder ==
    [][C33_Appended =>
          pending_llm_calls' =
              pending_llm_calls \o C33_Completions(last_reply'[1], last_reply'[1].order)]_vars

\* C33 (amended): every helper call appends after the entries of the calls
\* before it; the entries of one llm_query_batched call stand in the order
\* of its prompts, which is the order of the list it returns, whatever the
\* order in which the sub-queries completed.
C33_BuiltInCallAndInputOrder ==
    [][C33_Appended =>
          pending_llm_calls' =
              pending_llm_calls
                  \o C33_Completions(last_reply'[1],
                                     [i \in 1..Len(last_reply'[1].prompts) |-> i])]_vars

\* A batch of two prompts, the second answered before the first, whose
\* entries stand in the order of the prompts.
C33_Witness ==
    /\ last_reply /= None
    /\ last_reply[1].helper = "llm_query_batched"
    /\ last_reply[1].prompts = <<"a", "b">>
    /\ last_reply[1].order = <<2, 1>>
    /\ pending_llm_calls = <<ChatCompletionOf("a"), ChatCompletionOf("b")>>

\* The names of the evaluator namespace that setup builds, and the names of
\* the model that begin with an underscore.
C34_EvaluatorNames ==
    {"__builtins__", "__name__", "FINAL_VAR", "llm_query", "llm_query_batched"}

C34_UnderscoreNames == {"_t", "__builtins__", "__name__"}

C34_HelperNames == {"FINAL_VAR", "llm_query", "llm_query_batched"}

\* C34: after any sequence of load_context and execute_code calls the
\* persistent bindings store holds no name that begins with an underscore
\* and no name of the evaluator namespace; code that rebinds a helper name
\* affects only its own execution, so the namespace every later execution
\* starts from binds the three helper names to the helpers of the
\* environment.
C34_StoreHoldsUserNamesOnly ==
    environment = "live" =>
        /\ \A n \in Names :
               IsBound(env_locals, n) =>
                   n \notin C34_UnderscoreNames /\ n \notin C34_EvaluatorNames
        /\ \A h \in C34_HelperNames :
               InterpInit(env_globals, env_locals, pending_llm_calls).combined[h] = Helper

\* An execution bound x, rebound llm_query or bound _t, and only x reached
\* the store.
C34_Witness ==
    /\ environment = "live"
    /\ ~last_exec.raised
    /\ last_exec.exc = ""
    /\ last_exec.assigned["llm_query"] = "1" \/ last_exec.assigned["_t"] = "1"
    /\ last_exec.assigned["x"] /= Unbound
    /\ env_locals["x"] = last_exec.assigned["x"]
    /\ env_locals["llm_query"] = Unbound
    /\ env_locals["_t"] = Unbound

\* An execute_code call on a live environment whose code raised.
C35_FaultingCall ==
    /\ environment = "live"
    /\ environment' = "live"
    /\ exec_count' = exec_count + 1
    /\ last_exec'.exc /= ""

\* C35: an execute_code call whose code raises leaves the persistent
\* bindings store exactly as it was, the names bound before the fault not
\* committed, and the snapshot in the result it returns is the store as of
\* the previous call.
C35_FaultLeavesStoreUnchanged ==
    [][C35_FaultingCall =>
          /\ env_locals' = env_locals
          /\ ~last_exec'.raised =>
                 /\ last_exec'.result.locals = env_locals
                 /\ last_exec'.result.stderr /= <<>>]_vars

\* The code bound x to 2 and then raised; the store still binds x to 1 and
\* so does the snapshot of the result.
C35_Witness ==
    /\ environment = "live"
    /\ ~last_exec.raised
    /\ last_exec.exc = "ZeroDivisionError"
    /\ last_exec.assigned["x"] = "2"
    /\ env_locals["x"] = "1"
    /\ last_exec.result.locals["x"] = "1"

\* The sub-queries the code of thread t issued and had answered, in order.
C36_OwnCalls(t) ==
    LET answered == SelectSeq(threads[t].st.issued, LAMBDA q : q.ok)
    IN  [k \in 1..Len(answered) |-> answered[k].id]

\* Thread t is given the REPLResult of its call.
C36_Returns(t) == threads[t].at = "returning" /\ threads'[t].at = "out"

\* C36: when threads call execute_code concurrently on one environment, the
\* list of nested calls of every REPLResult returned holds exactly the
\* sub-queries issued by the code of that call.
C36_ResultHoldsOwnCalls ==
    [][\A t \in ThreadIds :
          C36_Returns(t) => threads'[t].result[1].rlm_calls = C36_OwnCalls(t)]_vars

\* A result that lists sub-queries of two different execute_code calls.
C36_ForeignCallInResult ==
    \E t \in ThreadIds :
        /\ threads[t].result /= None
        /\ \E i, k \in 1..Len(threads[t].result[1].rlm_calls) :
               threads[t].result[1].rlm_calls[i].call
                   /= threads[t].result[1].rlm_calls[k].call

\* A thread whose code had a sub-query answered is about to be given a
\* result, and the list of pending calls is empty.
C36_OwnCallLost ==
    \E t \in ThreadIds :
        /\ threads[t].at = "returning"
        /\ C36_OwnCalls(t) /= <<>>
        /\ pending_llm_calls = <<>>

====
